---- MODULE Spec2Model ----
(***************************************************************************)
(* Model of the Jetify API-interception shim (src/jetify): the WinHTTP and *)
(* registry hook functions of ApiHooks.c, the Detours attach/detach        *)
(* transactions, the environment helpers of Utils.c and the logging sink   *)
(* of Logger.c; and of the custom actions of the Windows installer         *)
(* (src/package/Windows/Actions/CustomAction.cpp) that validate the access *)
(* URI, detect PowerShell and run a command.                               *)
(*                                                                         *)
(* Representation.  A C string is a sequence of one-element strings, one   *)
(* per code unit: an ASCII character stands for itself, a non-ASCII byte   *)
(* of a char string is written as its two hex digits ("C3"), a non-ASCII   *)
(* UTF-16 unit as "U+00E9".  A pointer that may be null is a sequence of   *)
(* length 0 (NULL) or 1 (the pointee).  Handles are naturals, 0 is NULL.   *)
(***************************************************************************)
EXTENDS Integers, Sequences, FiniteSets, TLC

VARIABLES
    env,                \* the process environment block: name -> pointer to value
    modules,            \* system module -> "absent", "loaded" or "exports" (the registry API)
    g_LogInitialized,   \* Logger.c:9
    g_LogEnabled,       \* Logger.c:12
    g_LogLevel,         \* Logger.c:15
    g_LogFilePath,      \* Logger.c:13
    g_LogFile,          \* Logger.c:11, the path the open FILE* writes to, or NULL
    disk,               \* the file system: log path -> lines of the file
    entry,              \* per target: what the code at the target's entry executes
    tramp,              \* per target: the Detours trampolines, oldest first
    Real,               \* per target: the Real_* function pointer of ApiHooks.c
    g_hRegWSManClient,  \* ApiHooks.c:177
    probe,              \* host thread: the "more data" answer to its latest size probe
    hist,               \* the latest operations since the first attach or detach
    last,               \* host thread: the call it has made and not yet taken the result of
    pc,                 \* per thread: "idle", or inside Jetify_AttachHooks / Jetify_DetachHooks
                        \* between DetourTransactionBegin and DetourTransactionCommit
    s_nPendingThreadId, \* Detours: the thread that owns the pending transaction, or 0
    hConfigKey,         \* per host thread: the handle its latest open of the
                        \* configuration path gave it and it has not closed, or 0
    property            \* the installer session: property name -> value ("" when unset)

vars == <<env, modules, g_LogInitialized, g_LogEnabled, g_LogLevel, g_LogFilePath,
          g_LogFile, disk, entry, tramp, Real, g_hRegWSManClient, probe, hist, last,
          pc, s_nPendingThreadId, hConfigKey, property>>

\* the installer properties the custom actions read and write
PropertyNames == {"P.ERROR", "P.ACCESSURI_SCHEME", "P.ACCESSURI_HOST", "P.ACCESSURI_PORT",
                  "P.ACCESSURI_CMD", "P.HTTPURI_SCHEME", "P.HASPWSH"}

logVars == <<g_LogInitialized, g_LogEnabled, g_LogLevel, g_LogFilePath, g_LogFile>>
hookVars == <<entry, tramp, Real>>
threadVars == <<pc, s_nPendingThreadId, hConfigKey>>

-----------------------------------------------------------------------------
(* Pointers *)

NULL == <<>>
Ptr(v) == <<v>>
Deref(p) == p[1]

-----------------------------------------------------------------------------
(* Bounds of the model *)

\* allocations that may fail (return NULL) during one hook call
MaxAllocFailures == 1
\* lines one log file holds
MaxLogLines == 3
\* trampolines stacked on one target by repeated attaches
MaxLayers == 2
\* key handles the real registry hands out (1..MaxHandle)
MaxHandle == 2
\* operations the history keeps
HistLen == 3

-----------------------------------------------------------------------------
(* Characters and string comparison *)

UpperChars == <<"A","B","C","D","E","F","G","H","I","J","K","L","M",
                "N","O","P","Q","R","S","T","U","V","W","X","Y","Z">>
LowerChars == <<"a","b","c","d","e","f","g","h","i","j","k","l","m",
                "n","o","p","q","r","s","t","u","v","w","x","y","z">>

\* towlower / tolower in the C locale
ToLowerChar(c) ==
    IF \E i \in 1..26 : UpperChars[i] = c
    THEN LowerChars[CHOOSE i \in 1..26 : UpperChars[i] = c]
    ELSE c

ToLower(s) == [i \in 1..Len(s) |-> ToLowerChar(s[i])]

\* wcscmp replaced by a comparison that ignores case
StrEq_IgnoringCase(a, b) == ToLower(a) = ToLower(b)

\* wcscmp(a, b) == 0 / strcmp(a, b) == 0
StrEq(a, b) == a = b

\* _wcsicmp(a, b) == 0 / _stricmp(a, b) == 0
StrIEq(a, b) == ToLower(a) = ToLower(b)

-----------------------------------------------------------------------------
(* Code page conversion, CP_UTF8 with dwFlags = 0 *)

NonAsciiBytes == {"C3", "A9", "FF", "EF", "BF", "BD"}

RECURSIVE MultiByteToWideChar(_)
\* UTF-8 bytes to UTF-16 units; an invalid byte becomes U+FFFD
MultiByteToWideChar(s) ==
    IF s = <<>> THEN <<>>
    ELSE IF Len(s) >= 2 /\ s[1] = "C3" /\ s[2] = "A9"
         THEN <<"U+00E9">> \o MultiByteToWideChar(SubSeq(s, 3, Len(s)))
    ELSE IF Len(s) >= 3 /\ s[1] = "EF" /\ s[2] = "BF" /\ s[3] = "BD"
         THEN <<"U+FFFD">> \o MultiByteToWideChar(SubSeq(s, 4, Len(s)))
    ELSE IF s[1] \in NonAsciiBytes
         THEN <<"U+FFFD">> \o MultiByteToWideChar(Tail(s))
    ELSE <<s[1]>> \o MultiByteToWideChar(Tail(s))

RECURSIVE WideCharToMultiByte(_)
\* UTF-16 units to UTF-8 bytes
WideCharToMultiByte(w) ==
    IF w = <<>> THEN <<>>
    ELSE IF w[1] = "U+00E9" THEN <<"C3", "A9">> \o WideCharToMultiByte(Tail(w))
    ELSE IF w[1] = "U+FFFD" THEN <<"EF", "BF", "BD">> \o WideCharToMultiByte(Tail(w))
    ELSE <<w[1]>> \o WideCharToMultiByte(Tail(w))

\* Jetify_ConvertToUnicode(CP_UTF8, 0, lpMultiByteStr, -1, &out, 0) with *out
\* NULL on entry: the value of *out on return.  allocOk is calloc's outcome.
Jetify_ConvertToUnicode(lpMultiByteStr, allocOk) ==
    IF lpMultiByteStr = NULL THEN NULL
    ELSE LET cbMultiByte == Len(Deref(lpMultiByteStr)) + 1
             wide == MultiByteToWideChar(Deref(lpMultiByteStr))
             cchWideChar == Len(wide) + 1
         IN  IF cchWideChar < 1 THEN NULL
             ELSE IF ~allocOk THEN NULL
             ELSE Ptr(wide)

\* Jetify_ConvertFromUnicode(CP_UTF8, 0, lpWideCharStr, -1, &out, 0, NULL, NULL)
\* with *out NULL on entry: the value of *out on return.
Jetify_ConvertFromUnicode(lpWideCharStr, allocOk) ==
    IF lpWideCharStr = NULL THEN NULL
    ELSE LET cchWideChar == Len(Deref(lpWideCharStr)) + 1
             bytes == WideCharToMultiByte(Deref(lpWideCharStr))
             cbMultiByte == Len(bytes) + 1
         IN  IF cbMultiByte < 1 THEN NULL
             ELSE IF ~allocOk THEN NULL
             ELSE Ptr(bytes)

-----------------------------------------------------------------------------
(* Environment variables *)

EnvNames == {"WINRM_PROXY", "WINRM_PROXY_BYPASS", "JETIFY_LOG_LEVEL", "JETIFY_LOG_FILE_PATH"}

\* Jetify_GetEnv(name): a malloc'ed copy of the value, NULL when the variable
\* does not exist or malloc fails.  allocOk is malloc's outcome.
Jetify_GetEnv(name, allocOk) ==
    LET size == IF env[name] = NULL THEN 0 ELSE Len(Deref(env[name])) + 1
    IN  IF size = 0 THEN NULL
        ELSE IF ~allocOk THEN NULL
        ELSE env[name]

-----------------------------------------------------------------------------
(* Logging sink, Logger.c *)

JETIFY_LOG_TRACE == 0
JETIFY_LOG_DEBUG == 1
JETIFY_LOG_INFO == 2
JETIFY_LOG_WARN == 3
JETIFY_LOG_ERROR == 4
JETIFY_LOG_FATAL == 5
JETIFY_LOG_OFF == 6

Jetify_IsLogLevelActive(logLevel) ==
    IF ~g_LogEnabled THEN FALSE
    ELSE IF g_LogLevel = JETIFY_LOG_OFF THEN FALSE
    ELSE logLevel >= g_LogLevel

\* The lines a run of Jetify_LogPrint(level, ...) calls appends: Jetify_LogVA
\* writes nothing without an open file.
LinesLogged(logLevel, lines) ==
    IF Jetify_IsLogLevelActive(logLevel) /\ g_LogFile # NULL THEN lines ELSE <<>>

\* The message vsnprintf_s builds from a line holds a '%' when one of its %s
\* arguments does (line.s: the positions of the %s arguments).
MessageHasPercent(line) ==
    \E i \in line.s : \E k \in 1..Len(line.args[i]) : line.args[i][k] = "%"

\* Jetify_LogVA hands the message to fprintf as its format (Logger.c:40).  A
\* message without '%' is written as it is.  With a '%' the call reads
\* arguments it was not given: the line comes out with other text in the
\* place of the directive, or the process faults inside fprintf.
LogOutcomes(lines) ==
    IF \E i \in 1..Len(lines) : MessageHasPercent(lines[i])
    THEN {"garbled", "crash"}
    ELSE {"written"}

\* what fprintf puts in the file for one line
Printed(line) ==
    IF MessageHasPercent(line) THEN [fmt |-> line.fmt, args |-> "garbled", s |-> {}]
    ELSE line

RECURSIVE UpToFault(_)
\* the lines written before the fault
UpToFault(lines) ==
    IF lines = <<>> \/ MessageHasPercent(Head(lines)) THEN <<>>
    ELSE <<Head(lines)>> \o UpToFault(Tail(lines))

\* the lines of a run of Jetify_Log calls as they reach the file
Written(lines, outcome) ==
    IF outcome = "crash" THEN UpToFault(lines)
    ELSE [i \in 1..Len(lines) |-> Printed(lines[i])]

\* the file behind g_LogFile after the lines were written and flushed
DiskAfterLog(lines) ==
    IF g_LogFile = NULL \/ lines = <<>> THEN disk
    ELSE [disk EXCEPT ![Deref(g_LogFile)] = @ \o lines]

\* the log file has room for the lines (the bound of the model's disk)
LogRoom(lines) ==
    IF g_LogFile = NULL THEN TRUE
    ELSE Len(disk[Deref(g_LogFile)]) + Len(lines) <= MaxLogLines

\* "0".."9"
Digits == <<"0","1","2","3","4","5","6","7","8","9">>

DigitValue(c) == (CHOOSE i \in 1..10 : Digits[i] = c) - 1

IsDigit(c) == \E i \in 1..10 : Digits[i] = c

RECURSIVE AtoiDigits(_, _)
\* the value of the leading digits of s, continuing from acc
AtoiDigits(s, acc) ==
    IF s = <<>> \/ ~IsDigit(Head(s)) THEN acc
    ELSE AtoiDigits(Tail(s), acc * 10 + DigitValue(Head(s)))

RECURSIVE atoi(_)
\* atoi: leading white space, an optional sign, then digits; 0 without digits
atoi(s) ==
    IF s = <<>> THEN 0
    ELSE IF Head(s) = " " THEN atoi(Tail(s))
    ELSE IF Head(s) = "-" THEN 0 - AtoiDigits(Tail(s), 0)
    ELSE IF Head(s) = "+" THEN AtoiDigits(Tail(s), 0)
    ELSE AtoiDigits(s, 0)

\* g_LogLevel after the JETIFY_LOG_LEVEL branch of Jetify_LogEnvInit (lines 117-146)
LogLevelFromEnv(envvar) ==
    LET ival == atoi(envvar)
    IN  IF (ival >= 0) /\ (ival <= 6) THEN ival
        ELSE IF StrEq(envvar, <<"T","R","A","C","E">>) THEN JETIFY_LOG_TRACE
        ELSE IF StrEq(envvar, <<"D","E","B","U","G">>) THEN JETIFY_LOG_DEBUG
        ELSE IF StrEq(envvar, <<"I","N","F","O">>) THEN JETIFY_LOG_INFO
        ELSE IF StrEq(envvar, <<"W","A","R","N">>) THEN JETIFY_LOG_WARN
        ELSE IF StrEq(envvar, <<"E","R","R","O","R">>) THEN JETIFY_LOG_ERROR
        ELSE IF StrEq(envvar, <<"F","A","T","A","L">>) THEN JETIFY_LOG_FATAL
        ELSE IF StrEq(envvar, <<"O","F","F">>) THEN JETIFY_LOG_OFF
        ELSE g_LogLevel

\* Jetify_LogEnvInit: the logger configuration it leaves.  failed: the
\* Jetify_GetEnv copies whose malloc fails.
Jetify_LogEnvInit(failed) ==
    IF g_LogInitialized
    THEN [level |-> g_LogLevel, enabled |-> g_LogEnabled, path |-> g_LogFilePath]
    ELSE LET levelVar == Jetify_GetEnv("JETIFY_LOG_LEVEL", "level" \notin failed)
             pathVar == Jetify_GetEnv("JETIFY_LOG_FILE_PATH", "path" \notin failed)
             level == IF levelVar # NULL THEN LogLevelFromEnv(Deref(levelVar))
                      ELSE g_LogLevel
         IN  [level |-> level,
              enabled |-> IF levelVar # NULL /\ level # JETIFY_LOG_OFF
                          THEN TRUE ELSE g_LogEnabled,
              path |-> IF pathVar # NULL THEN Deref(pathVar) ELSE g_LogFilePath]

\* ExpandEnvironmentStringsA("%TEMP%\\Jetify.log"), with TEMP = C:\T
DefaultLogPath == <<"C",":","\\","T","\\","J","e","t","i","f","y",".","l","o","g">>

\* a value of JETIFY_LOG_FILE_PATH
CustomLogPath == <<"C",":","\\","j",".","l","o","g">>

LogPaths == {DefaultLogPath, CustomLogPath}

\* The logger after Jetify_LogOpen, Logger.c:165-177.  fopenOk: whether
\* fopen(path, "wb") succeeds; mode "wb" empties the file.  first: this was the
\* first Jetify_LogEnvInit; levelVar: the JETIFY_LOG_LEVEL value it read;
\* leaked: a FILE* held by g_LogFile was overwritten without fclose (line 176).
AfterLogOpen(failed, fopenOk) ==
    LET cfg == Jetify_LogEnvInit(failed)
        path == IF cfg.path = <<>> THEN DefaultLogPath ELSE cfg.path
    IN  [level |-> cfg.level, enabled |-> cfg.enabled,
         path |-> IF cfg.enabled THEN path ELSE g_LogFilePath,
         file |-> IF cfg.enabled THEN (IF fopenOk THEN Ptr(path) ELSE NULL) ELSE g_LogFile,
         disk |-> IF cfg.enabled /\ fopenOk THEN [disk EXCEPT ![path] = <<>>] ELSE disk,
         first |-> ~g_LogInitialized,
         levelVar |-> Jetify_GetEnv("JETIFY_LOG_LEVEL", "level" \notin failed),
         leaked |-> cfg.enabled /\ g_LogFile # NULL]

Jetify_LogOpen(failed, fopenOk) ==
    LET o == AfterLogOpen(failed, fopenOk)
    IN  /\ g_LogInitialized' = TRUE
        /\ g_LogLevel' = o.level
        /\ g_LogEnabled' = o.enabled
        /\ g_LogFilePath' = o.path
        /\ g_LogFile' = o.file
        /\ disk' = o.disk
        /\ last' = [api |-> "Jetify_LogOpen", hooked |-> FALSE, first |-> o.first,
                    levelVar |-> o.levelVar, leaked |-> o.leaked]
        /\ UNCHANGED <<threadVars, property, env, modules, hookVars, g_hRegWSManClient, probe, hist>>

\* Jetify_LogClose, Logger.c:179-185
Jetify_LogClose ==
    /\ g_LogFile' = NULL
    /\ last' = [api |-> "Jetify_LogClose", hooked |-> FALSE]
    /\ UNCHANGED <<threadVars, property, env, modules, g_LogInitialized, g_LogEnabled, g_LogLevel,
                   g_LogFilePath, disk, hookVars, g_hRegWSManClient, probe, hist>>

\* Jetify_Log(format, ...), Logger.c:47-55, called without a level test
Jetify_Log(line) ==
    LET lines == IF g_LogFile # NULL THEN <<line>> ELSE <<>>
    IN  \E logged \in LogOutcomes(lines) :
            /\ LogRoom(lines)
            /\ disk' = DiskAfterLog(Written(lines, logged))
            /\ last' = [api |-> "Jetify_Log", hooked |-> FALSE, logged |-> logged]
            /\ UNCHANGED <<threadVars, property, env, modules, logVars, hookVars, g_hRegWSManClient, probe, hist>>

\* bytes per line of Jetify_LogHexDump (width, Logger.c:61)
HexWidth == 16

\* the character codes of "0123456789ABCDEF"
HexDigitCodes == <<48, 49, 50, 51, 52, 53, 54, 55, 56, 57, 65, 66, 67, 68, 69, 70>>

Spaces(n) == [i \in 1..n |-> 32]

RECURSIVE HexPairs(_)
\* lines 72-79: high nibble, then low nibble, of every byte
HexPairs(bytes) ==
    IF bytes = <<>> THEN <<>>
    ELSE <<HexDigitCodes[(Head(bytes) \div 16) + 1], HexDigitCodes[(Head(bytes) % 16) + 1]>>
         \o HexPairs(Tail(bytes))

\* lines 92-96: the byte itself if printable, '.' otherwise
SideText(bytes) ==
    [i \in 1..Len(bytes) |-> IF bytes[i] >= 32 /\ bytes[i] < 127 THEN bytes[i] ELSE 46]

\* The bytes fwrite gets for one chunk (lines 65-101).  at32: what line[32]
\* holds.  Lines 81-86 write line[0..31]; only a chunk of 16 bytes writes
\* line[32] (the ' ' of line 81).  strlen stops at a zero there.
HexDumpLine(chunk, at32) ==
    LET left == HexPairs(chunk) \o Spaces(2 * (HexWidth - Len(chunk)))
        c32 == IF Len(chunk) = HexWidth THEN 32 ELSE at32
    IN  IF c32 = 0 THEN left
        ELSE left \o <<c32>> \o SideText(chunk) \o <<10>>

RECURSIVE HexDumpLines(_, _)
\* gap: the value of the uninitialised line[32] at entry
HexDumpLines(data, gap) ==
    IF data = <<>> THEN <<>>
    ELSE LET n == IF Len(data) >= HexWidth THEN HexWidth ELSE Len(data)
         IN  <<[bytes |-> HexDumpLine(SubSeq(data, 1, n), gap)]>>
             \o HexDumpLines(SubSeq(data, n + 1, Len(data)),
                             IF n = HexWidth THEN 32 ELSE gap)

\* Jetify_LogHexDump(data, size), Logger.c:57-106
Jetify_LogHexDump(data, gap) ==
    LET lines == IF g_LogFile # NULL THEN HexDumpLines(data, gap) ELSE <<>>
    IN  /\ LogRoom(lines)
        /\ disk' = DiskAfterLog(lines)
        /\ last' = [api |-> "Jetify_LogHexDump", hooked |-> FALSE]
        /\ UNCHANGED <<threadVars, property, env, modules, logVars, hookVars, g_hRegWSManClient, probe, hist>>

-----------------------------------------------------------------------------
(* Detours state: where a call of a target goes *)

WinHttpTargets == {"WinHttpOpen", "WinHttpConnect", "WinHttpSetOption",
                   "WinHttpOpenRequest", "WinHttpSendRequest", "WinHttpCloseHandle"}
RegTargets == {"RegOpenKeyExW", "RegQueryValueExW"}
Targets == WinHttpTargets \cup RegTargets

\* Values of a Real_* pointer: NoFn is NULL, 0 the target's entry, k >= 1 the
\* k-th trampoline of the target.
NoFn == -1

CodeAt(t, loc) == IF loc = 0 THEN entry[t] ELSE tramp[t][loc].code

\* What the call through Real_<t> inside Hook_<t> executes.
RealCall(t) ==
    IF Real[t] = NoFn THEN "nullcall"
    ELSE IF CodeAt(t, Real[t]) = "body" THEN "orig"
    ELSE "recurse"

-----------------------------------------------------------------------------
(* Hook_WinHttpOpen, ApiHooks.c:22-82 *)

WINHTTP_ACCESS_TYPE_DEFAULT_PROXY == 0
WINHTTP_ACCESS_TYPE_NAMED_PROXY == 3
WINHTTP_FLAG_ASYNC == 268435456

\* L"Microsoft WinRM Client"
WinRMAgent == <<"M","i","c","r","o","s","o","f","t"," ",
                "W","i","n","R","M"," ","C","l","i","e","n","t">>

AllocSites == {"pszProxyEnvA", "pszProxyBypassEnvA", "_pszProxyW", "_pszProxyBypassW",
               "pszAgentA", "pszProxyA", "pszProxyBypassA"}

\* the bypass variable honoured on its own, outside the test of the proxy variable
WinHttpOpen_Forwarded_BypassAlone(a, failed) ==
    IF a.pszAgentW # NULL /\ StrEq(Deref(a.pszAgentW), WinRMAgent)
    THEN LET pszProxyEnvA == Jetify_GetEnv("WINRM_PROXY", "pszProxyEnvA" \notin failed)
             pszProxyBypassEnvA ==
                 Jetify_GetEnv("WINRM_PROXY_BYPASS", "pszProxyBypassEnvA" \notin failed)
             b == IF pszProxyBypassEnvA # NULL
                  THEN [a EXCEPT !.pszProxyBypassW =
                            Jetify_ConvertToUnicode(pszProxyBypassEnvA,
                                                    "_pszProxyBypassW" \notin failed)]
                  ELSE a
         IN  IF pszProxyEnvA # NULL
             THEN [b EXCEPT
                     !.dwAccessType = WINHTTP_ACCESS_TYPE_NAMED_PROXY,
                     !.pszProxyW =
                         Jetify_ConvertToUnicode(pszProxyEnvA, "_pszProxyW" \notin failed)]
             ELSE b
    ELSE a

\* The arguments Hook_WinHttpOpen hands to Real_WinHttpOpen (lines 31-48).
\* a: the caller's arguments; failed: the allocation sites that return NULL.
WinHttpOpen_Forwarded(a, failed) ==
    IF a.pszAgentW # NULL /\ StrEq(Deref(a.pszAgentW), WinRMAgent)
    THEN LET pszProxyEnvA == Jetify_GetEnv("WINRM_PROXY", "pszProxyEnvA" \notin failed)
             pszProxyBypassEnvA ==
                 Jetify_GetEnv("WINRM_PROXY_BYPASS", "pszProxyBypassEnvA" \notin failed)
         IN  IF pszProxyEnvA # NULL
             THEN [a EXCEPT
                     !.dwAccessType = WINHTTP_ACCESS_TYPE_NAMED_PROXY,
                     !.pszProxyW =
                         Jetify_ConvertToUnicode(pszProxyEnvA, "_pszProxyW" \notin failed),
                     !.pszProxyBypassW =
                         IF pszProxyBypassEnvA # NULL
                         THEN Jetify_ConvertToUnicode(pszProxyBypassEnvA,
                                                      "_pszProxyBypassW" \notin failed)
                         ELSE @]
             ELSE a
    ELSE a

\* The lines of the three Jetify_LogPrint(DEBUG, ...) calls (lines 50-62).
\* f: the arguments as forwarded.
WinHttpOpen_LogLines(f, failed) ==
    LET pszAgentA == Jetify_ConvertFromUnicode(f.pszAgentW, "pszAgentA" \notin failed)
        pszProxyA == Jetify_ConvertFromUnicode(f.pszProxyW, "pszProxyA" \notin failed)
        pszProxyBypassA ==
            Jetify_ConvertFromUnicode(f.pszProxyBypassW, "pszProxyBypassA" \notin failed)
        Text(p) == IF p # NULL THEN Deref(p) ELSE <<>>
    IN  << [fmt |-> "WinHttpOpen(dwAccessType: %d, dwFlags: 0x%08X)",
            args |-> <<f.dwAccessType, f.dwFlags>>, s |-> {}],
           [fmt |-> "pszAgent: \"%s\"", args |-> <<Text(pszAgentA)>>, s |-> {1}],
           [fmt |-> "pszProxy: \"%s\" pszProxyBypass: \"%s\"",
            args |-> <<Text(pszProxyA), Text(pszProxyBypassA)>>, s |-> {1, 2}] >>

\* What a hook does with the heap, in program order: a call of
\* Jetify_GetEnv, Jetify_ConvertToUnicode or Jetify_ConvertFromUnicode for the
\* variable site, with the buffer it returns when it returns one, and a free
\* of the variable when it is not null.
Obtained(site, result) ==
    <<[ev |-> "call", site |-> site]>>
    \o (IF result # NULL THEN <<[ev |-> "alloc", site |-> site]>> ELSE <<>>)

Freed(site, ptr) == IF ptr # NULL THEN <<[ev |-> "free", site |-> site]>> ELSE <<>>

\* the call of the real function: the buffers among its arguments are in use
\* when it runs
RealCalled(sites) ==
    [i \in 1..Len(sites) |-> [ev |-> "use", site |-> sites[i]]]
    \o <<[ev |-> "real", site |-> "real"]>>

\* Hook_WinHttpOpen up to the log lines (ApiHooks.c:31-57)
WinHttpOpen_HeapBefore(a, failed) ==
    LET f == WinHttpOpen_Forwarded(a, failed)
        pszProxyEnvA == Jetify_GetEnv("WINRM_PROXY", "pszProxyEnvA" \notin failed)
        pszProxyBypassEnvA ==
            Jetify_GetEnv("WINRM_PROXY_BYPASS", "pszProxyBypassEnvA" \notin failed)
        override ==
            IF a.pszAgentW # NULL /\ StrEq(Deref(a.pszAgentW), WinRMAgent)
            THEN Obtained("pszProxyEnvA", pszProxyEnvA)
                 \o Obtained("pszProxyBypassEnvA", pszProxyBypassEnvA)
                 \o (IF pszProxyEnvA # NULL
                     THEN Obtained("_pszProxyW",
                              Jetify_ConvertToUnicode(pszProxyEnvA,
                                                      "_pszProxyW" \notin failed))
                          \o (IF pszProxyBypassEnvA # NULL
                              THEN Obtained("_pszProxyBypassW",
                                       Jetify_ConvertToUnicode(pszProxyBypassEnvA,
                                           "_pszProxyBypassW" \notin failed))
                              ELSE <<>>)
                     ELSE <<>>)
                 \o Freed("pszProxyEnvA", pszProxyEnvA)
                 \o Freed("pszProxyBypassEnvA", pszProxyBypassEnvA)
            ELSE <<>>
        Converted(site, w) ==
            IF w # NULL
            THEN Obtained(site, Jetify_ConvertFromUnicode(w, site \notin failed))
            ELSE <<>>
    IN  override \o Converted("pszAgentA", f.pszAgentW)
                 \o Converted("pszProxyA", f.pszProxyW)
                 \o Converted("pszProxyBypassA", f.pszProxyBypassW)

\* a list of frees that leaves out the converted bypass list
WinHttpOpen_FreedAfter_LeakBypass == <<"pszAgentA", "pszProxyA", "_pszProxyW",
                                       "pszProxyBypassA">>

\* the variables freed, when not null, after the real call (lines 66-79)
WinHttpOpen_FreedAfter == <<"pszAgentA", "pszProxyA", "_pszProxyW", "pszProxyBypassA",
                            "_pszProxyBypassW">>

\* the heap events of a run of Hook_WinHttpOpen that returns
WinHttpOpen_Heap(a, failed) ==
    LET before == WinHttpOpen_HeapBefore(a, failed)
        held(site) == \E i \in 1..Len(before) :
                          before[i] = [ev |-> "alloc", site |-> site]
        freed == SelectSeq(WinHttpOpen_FreedAfter, held)
    IN  before \o RealCalled(SelectSeq(<<"_pszProxyW", "_pszProxyBypassW">>, held))
               \o [i \in 1..Len(freed) |-> [ev |-> "free", site |-> freed[i]]]

\* Hook_WinHttpOpen as a whole: the observation of the call and the log file.
\* hInternet is what the real WinHttpOpen returns for the forwarded arguments;
\* traced: whether the observation keeps the heap events of the call.
Hook_WinHttpOpen(a, failed, hInternet, traced) ==
    LET f == WinHttpOpen_Forwarded(a, failed)
        lines == LinesLogged(JETIFY_LOG_DEBUG, WinHttpOpen_LogLines(f, failed))
    IN  \E logged \in LogOutcomes(lines) :
          LET reached == logged # "crash" /\ RealCall("WinHttpOpen") = "orig"
          IN  /\ LogRoom(lines)
              /\ disk' = DiskAfterLog(Written(lines, logged))
              /\ last' = [api |-> "WinHttpOpen", hooked |-> TRUE, args |-> a,
                          realCalls |-> IF reached THEN <<f>> ELSE <<>>,
                          realRet |-> hInternet,
                          heap |-> IF ~traced THEN <<>>
                                   ELSE IF reached THEN WinHttpOpen_Heap(a, failed)
                                   ELSE WinHttpOpen_HeapBefore(a, failed),
                          outcome |-> IF reached THEN "returned" ELSE "crashed",
                          ret |-> IF reached THEN hInternet ELSE 0]

-----------------------------------------------------------------------------
(* Registry hooks, ApiHooks.c:164-261 *)

ERROR_SUCCESS == 0
ERROR_FILE_NOT_FOUND == 2
ERROR_ACCESS_DENIED == 5
ERROR_INVALID_PARAMETER == 87
ERROR_MORE_DATA == 234

REG_NONE == 0
REG_SZ == 1
REG_DWORD == 4

\* the predefined keys, (HKEY)(ULONG_PTR)((LONG)0x80000001) and ...02, as LONG
HKEY_CURRENT_USER == -2147483647
HKEY_LOCAL_MACHINE == -2147483646

KEY_READ == 131097
KEY_ALL_ACCESS == 983103
REG_OPTION_OPEN_LINK == 8

\* L"SOFTWARE\\Microsoft\\Windows\\CurrentVersion\\WSMAN\\Client"
WSManClientPath == <<
    "S","O","F","T","W","A","R","E","\\","M","i","c","r","o",
    "s","o","f","t","\\","W","i","n","d","o","w","s","\\","C",
    "u","r","r","e","n","t","V","e","r","s","i","o","n","\\",
    "W","S","M","A","N","\\","C","l","i","e","n","t" >>

\* L"TrustedHosts"
TrustedHosts == <<
    "T","r","u","s","t","e","d","H","o","s","t","s" >>

\* L"TrustedHostsList"
TrustedHostsList == <<
    "T","r","u","s","t","e","d","H","o","s","t","s","L","i","s","t" >>

\* sizeof(DWORD)
SizeofDWORD == 4

\* the bytes of the DWORD 1, little endian
DWORD_One == <<1, 0, 0, 0>>
\* the bytes of L"*" with its terminator
WideStar == <<42, 0, 0, 0>>

\* buf with its first Len(bytes) bytes replaced by bytes
WriteBytes(buf, bytes) ==
    [i \in 1..Len(buf) |-> IF i <= Len(bytes) THEN bytes[i] ELSE buf[i]]

\* the sub-key compared with wcscmp instead of _wcsicmp
RegOpen_Remember_CaseSensitive(hKey, lpSubKeyW, hkResult) ==
    IF (hKey = HKEY_LOCAL_MACHINE) /\ lpSubKeyW # NULL
    THEN IF StrEq(Deref(lpSubKeyW), WSManClientPath)
         THEN hkResult
         ELSE g_hRegWSManClient
    ELSE g_hRegWSManClient

\* The bookkeeping of Hook_RegOpenKeyExW (lines 194-200): the remembered handle
\* after a call with these arguments, hkResult being *phkResult after the real call.
RegOpen_Remember(hKey, lpSubKeyW, hkResult) ==
    IF (hKey = HKEY_LOCAL_MACHINE) /\ lpSubKeyW # NULL
    THEN IF StrIEq(Deref(lpSubKeyW), WSManClientPath)
         THEN hkResult
         ELSE g_hRegWSManClient
    ELSE g_hRegWSManClient

\* the bookkeeping done on the caller's HKEY variable before the real open
Hook_RegOpenKeyExW_RememberFirst(a, lstatus, hkResult) ==
    LET early == RegOpen_Remember(a.hKey, a.lpSubKeyW, Deref(a.phkResult))
    IN  /\ g_hRegWSManClient' = early
        /\ last' = [api |-> "RegOpenKeyExW", hooked |-> TRUE, args |-> a,
                    realCalls |-> <<a>>, remAtEntry |-> g_hRegWSManClient,
                    remAtRealCall |-> early,
                    realRet |-> lstatus, realOut |-> [phkResult |-> Ptr(hkResult)],
                    outcome |-> "returned", ret |-> lstatus,
                    outs |-> [phkResult |-> Ptr(hkResult)]]

\* Hook_RegOpenKeyExW as a whole.  a: the caller's arguments, a.phkResult
\* pointing at the caller's HKEY variable with its content before the call;
\* lstatus and hkResult: the status the real RegOpenKeyExW returns and the
\* content of *phkResult when it returns.  The real function is called first
\* (line 192); a call that does not come back (a null or self-referring
\* Real_RegOpenKeyExW) never reaches the bookkeeping.
Hook_RegOpenKeyExW(a, lstatus, hkResult) ==
    IF RealCall("RegOpenKeyExW") = "orig"
    THEN /\ g_hRegWSManClient' = RegOpen_Remember(a.hKey, a.lpSubKeyW, hkResult)
         /\ last' = [api |-> "RegOpenKeyExW", hooked |-> TRUE, args |-> a,
                     realCalls |-> <<a>>, remAtEntry |-> g_hRegWSManClient,
                     remAtRealCall |-> g_hRegWSManClient,
                     realRet |-> lstatus, realOut |-> [phkResult |-> Ptr(hkResult)],
                     outcome |-> "returned", ret |-> lstatus,
                     outs |-> [phkResult |-> Ptr(hkResult)]]
    ELSE /\ g_hRegWSManClient' = g_hRegWSManClient
         /\ last' = [api |-> "RegOpenKeyExW", hooked |-> TRUE, args |-> a,
                     realCalls |-> <<>>, remAtEntry |-> g_hRegWSManClient,
                     remAtRealCall |-> g_hRegWSManClient,
                     realRet |-> lstatus, realOut |-> [phkResult |-> a.phkResult],
                     outcome |-> "crashed", ret |-> lstatus,
                     outs |-> [phkResult |-> a.phkResult]]

\* What Hook_RegQueryValueExW does before it reaches line 257 (lines 219-255):
\* the caller's memory as the hook leaves it, and either the status it returns
\* ("return") or the decision to go on to the real query ("forward").
\* a: the caller's arguments, each pointer with the content it points at.

\* the value named "TrustedHosts" forwarded after the flag has been written
RegQuery_TrustedHosts_NoReturn(a) ==
    LET m == [a EXCEPT !.lpType = IF @ # NULL THEN Ptr(REG_DWORD) ELSE @]
    IN  IF a.lpData # NULL /\ a.lpcbData # NULL
           /\ (Deref(a.lpcbData) = SizeofDWORD)
        THEN [do |-> "forward", lstatus |-> ERROR_SUCCESS,
              mem |-> [m EXCEPT !.lpData = Ptr(WriteBytes(Deref(@), DWORD_One))]]
        ELSE [do |-> "forward", lstatus |-> ERROR_SUCCESS, mem |-> m]

\* lines 221-231: the value named "TrustedHosts"
RegQuery_TrustedHosts(a) ==
    LET m == [a EXCEPT !.lpType = IF @ # NULL THEN Ptr(REG_DWORD) ELSE @]
    IN  IF a.lpData # NULL /\ a.lpcbData # NULL
           /\ (Deref(a.lpcbData) = SizeofDWORD)
        THEN [do |-> "return", lstatus |-> ERROR_SUCCESS,
              mem |-> [m EXCEPT !.lpData = Ptr(WriteBytes(Deref(@), DWORD_One))]]
        ELSE [do |-> "forward", lstatus |-> ERROR_SUCCESS, mem |-> m]

\* the string written only into a buffer of more than 4 bytes
RegQuery_TrustedHostsList_Over4(a) ==
    LET m == [a EXCEPT !.lpType = IF @ # NULL THEN Ptr(REG_SZ) ELSE @]
    IN  IF a.lpData # NULL /\ a.lpcbData # NULL
        THEN IF Deref(a.lpcbData) > 4
             THEN [do |-> "return", lstatus |-> ERROR_SUCCESS,
                   mem |-> [m EXCEPT !.lpData = Ptr(WriteBytes(Deref(@), WideStar)),
                                     !.lpcbData = Ptr(4)]]
             ELSE [do |-> "forward", lstatus |-> ERROR_SUCCESS, mem |-> m]
        ELSE [do |-> "return", lstatus |-> ERROR_MORE_DATA,
              mem |-> [m EXCEPT !.lpcbData = IF @ # NULL THEN Ptr(4) ELSE @]]

\* lines 232-254: the value named "TrustedHostsList"
RegQuery_TrustedHostsList(a) ==
    LET m == [a EXCEPT !.lpType = IF @ # NULL THEN Ptr(REG_SZ) ELSE @]
    IN  IF a.lpData # NULL /\ a.lpcbData # NULL
        THEN IF Deref(a.lpcbData) >= 4
             THEN [do |-> "return", lstatus |-> ERROR_SUCCESS,
                   mem |-> [m EXCEPT !.lpData = Ptr(WriteBytes(Deref(@), WideStar)),
                                     !.lpcbData = Ptr(4)]]
             ELSE [do |-> "forward", lstatus |-> ERROR_SUCCESS, mem |-> m]
        ELSE [do |-> "return", lstatus |-> ERROR_MORE_DATA,
              mem |-> [m EXCEPT !.lpcbData = IF @ # NULL THEN Ptr(4) ELSE @]]

\* the two names answered for every key handle
RegQuery_Decide_AnyKey(a) ==
    IF a.lpValueNameW # NULL
    THEN IF StrIEq(Deref(a.lpValueNameW), TrustedHosts)
         THEN RegQuery_TrustedHosts(a)
         ELSE IF StrIEq(Deref(a.lpValueNameW), TrustedHostsList)
         THEN RegQuery_TrustedHostsList(a)
         ELSE [do |-> "forward", lstatus |-> ERROR_SUCCESS, mem |-> a]
    ELSE [do |-> "forward", lstatus |-> ERROR_SUCCESS, mem |-> a]

\* lines 219-255
RegQuery_Decide(a) ==
    IF (a.hKey = g_hRegWSManClient) /\ a.lpValueNameW # NULL
    THEN IF StrIEq(Deref(a.lpValueNameW), TrustedHosts)
         THEN RegQuery_TrustedHosts(a)
         ELSE IF StrIEq(Deref(a.lpValueNameW), TrustedHostsList)
         THEN RegQuery_TrustedHostsList(a)
         ELSE [do |-> "forward", lstatus |-> ERROR_SUCCESS, mem |-> a]
    ELSE [do |-> "forward", lstatus |-> ERROR_SUCCESS, mem |-> a]

\* The real RegQueryValueExW on the memory m for a value that is absent
\* (value = NULL) or has a type and bytes: the status and the memory afterwards.
Real_RegQueryValueExW(m, value) ==
    IF value = NULL
    THEN [lstatus |-> ERROR_FILE_NOT_FOUND, mem |-> m]
    ELSE LET v == Deref(value)
             t == [m EXCEPT !.lpType = IF @ # NULL THEN Ptr(v.type) ELSE @]
         IN  IF m.lpcbData = NULL
             THEN [lstatus |-> IF m.lpData = NULL THEN ERROR_SUCCESS
                               ELSE ERROR_INVALID_PARAMETER,
                   mem |-> IF m.lpData = NULL THEN t ELSE m]
             ELSE IF m.lpData = NULL
             THEN [lstatus |-> ERROR_SUCCESS,
                   mem |-> [t EXCEPT !.lpcbData = Ptr(Len(v.bytes))]]
             ELSE IF Deref(m.lpcbData) < Len(v.bytes)
             THEN [lstatus |-> ERROR_MORE_DATA,
                   mem |-> [t EXCEPT !.lpcbData = Ptr(Len(v.bytes))]]
             ELSE [lstatus |-> ERROR_SUCCESS,
                   mem |-> [t EXCEPT !.lpData = Ptr(WriteBytes(Deref(@), v.bytes)),
                                     !.lpcbData = Ptr(Len(v.bytes))]]

\* Hook_RegQueryValueExW as a whole.  value: what the real registry holds for
\* the queried key and name.
Hook_RegQueryValueExW(a, value) ==
    LET d == RegQuery_Decide(a)
        r == Real_RegQueryValueExW(d.mem, value)
        forwarded == d.do = "forward" /\ RealCall("RegQueryValueExW") = "orig"
    IN  last' = [api |-> "RegQueryValueExW", hooked |-> TRUE, args |-> a,
                 direct |-> Real_RegQueryValueExW(a, value),
                 realCalls |-> IF forwarded THEN <<d.mem>> ELSE <<>>,
                 realRet |-> r.lstatus, realOut |-> r.mem,
                 outcome |-> IF d.do = "forward" /\ ~forwarded
                             THEN "crashed" ELSE "returned",
                 ret |-> IF d.do = "forward" THEN r.lstatus ELSE d.lstatus,
                 outs |-> IF forwarded THEN r.mem ELSE d.mem]

-----------------------------------------------------------------------------
(* Pass-through hooks, ApiHooks.c:84-162 *)

\* A hook that logs one line at DEBUG, then calls the real function with its
\* own arguments and returns what it returns.  before: its heap events ahead
\* of the log line; each buffer obtained there is freed after the real call.
PassThrough(api, a, line, realRet, before) ==
    LET lines == LinesLogged(JETIFY_LOG_DEBUG, <<line>>)
        after == [i \in 1..Len(SelectSeq(before, LAMBDA e : e.ev = "alloc")) |->
                     [ev |-> "free",
                      site |-> SelectSeq(before, LAMBDA e : e.ev = "alloc")[i].site]]
    IN  \E logged \in LogOutcomes(lines) :
          LET reached == logged # "crash" /\ RealCall(api) = "orig"
          IN  /\ LogRoom(lines)
              /\ disk' = DiskAfterLog(Written(lines, logged))
              /\ last' = [api |-> api, hooked |-> TRUE, args |-> a,
                          realCalls |-> IF reached THEN <<a>> ELSE <<>>,
                          realRet |-> realRet, logged |-> logged,
                          heap |-> IF reached THEN before \o RealCalled(<<>>) \o after
                                   ELSE before,
                          outcome |-> IF reached THEN "returned" ELSE "crashed",
                          ret |-> IF reached THEN realRet ELSE 0]

Hook_WinHttpConnect(a, failed, hInternet) ==
    LET pszServerNameA ==
            Jetify_ConvertFromUnicode(a.pszServerNameW, "pszServerNameA" \notin failed)
    IN  PassThrough("WinHttpConnect", a,
            [fmt |-> "WinHttpConnect(hSession: %p, pszServerName: %s nServerPort: %d)",
             args |-> <<a.hSession,
                        IF pszServerNameA # NULL THEN Deref(pszServerNameA) ELSE <<>>,
                        a.nServerPort>>, s |-> {2}],
            hInternet,
            IF a.pszServerNameW # NULL THEN Obtained("pszServerNameA", pszServerNameA)
            ELSE <<>>)

Hook_WinHttpSetOption(a, success) ==
    PassThrough("WinHttpSetOption", a,
        [fmt |-> "WinHttpSetOption(hInternet: %p, dwOption: %d, dwBufferLength: %d)",
         args |-> <<a.hInternet, a.dwOption, a.dwBufferLength>>, s |-> {}],
        success, <<>>)

Hook_WinHttpOpenRequest(a, hRequest) ==
    PassThrough("WinHttpOpenRequest", a,
        [fmt |-> "WinHttpOpenRequest(hConnect: %p)", args |-> <<a.hConnect>>, s |-> {}],
        hRequest, <<>>)

Hook_WinHttpSendRequest(a, success) ==
    PassThrough("WinHttpSendRequest", a,
        [fmt |-> "WinHttpSendRequest(hRequest: %p)", args |-> <<a.hRequest>>, s |-> {}],
        success, <<>>)

Hook_WinHttpCloseHandle(a, success) ==
    PassThrough("WinHttpCloseHandle", a,
        [fmt |-> "WinHttpCloseHandle(hInternet: %p)", args |-> <<a.hInternet>>, s |-> {}],
        success, <<>>)

\* The original implementation reached without a hook: the entry of the
\* target is not redirected.
Original(api, a, realRet, realOut) ==
    last' = [api |-> api, hooked |-> FALSE, args |-> a, realCalls |-> <<a>>,
             direct |-> [lstatus |-> realRet, mem |-> realOut],
             realRet |-> realRet, realOut |-> realOut,
             outcome |-> "returned", ret |-> realRet, outs |-> realOut]

-----------------------------------------------------------------------------
(* Jetify_AttachHooks and Jetify_DetachHooks, ApiHooks.c:263-331 *)

NO_ERROR == 0
ERROR_NOT_ENOUGH_MEMORY == 8
ERROR_INVALID_BLOCK == 9
ERROR_INVALID_OPERATION == 4317

\* the threads of the host that call Jetify_AttachHooks or Jetify_DetachHooks
Threads == {1, 2}

\* the targets named by the JETIFY_DETOUR_ATTACH lines 269-273 and 296, 301
AttachList == {"WinHttpOpen", "WinHttpConnect", "WinHttpSetOption",
               "WinHttpOpenRequest", "WinHttpCloseHandle",
               "RegOpenKeyExW", "RegQueryValueExW"}

\* a detach list that leaves out WinHttpCloseHandle
DetachList_NoCloseHandle == {"WinHttpOpen", "WinHttpConnect", "WinHttpSetOption",
                             "WinHttpOpenRequest",
                             "RegOpenKeyExW", "RegQueryValueExW"}

\* the targets named by the JETIFY_DETOUR_DETACH lines 313-317 and 321, 326
DetachList == {"WinHttpOpen", "WinHttpConnect", "WinHttpSetOption",
               "WinHttpOpenRequest", "WinHttpCloseHandle",
               "RegOpenKeyExW", "RegQueryValueExW"}

\* GetProcAddress(GetModuleHandleA(module), name) for a registry function
GetProcAddress(module) == IF modules[module] = "exports" THEN 0 ELSE NoFn

\* Real_RegOpenKeyExW / Real_RegQueryValueExW after lines 275-291
ResolveReg(t) ==
    LET fromKernelBase == IF modules["KernelBase.dll"] # "absent"
                          THEN GetProcAddress("KernelBase.dll") ELSE Real[t]
    IN  IF modules["advapi32.dll"] # "absent" /\ fromKernelBase = NoFn
        THEN GetProcAddress("advapi32.dll") ELSE fromKernelBase

\* the Real_* pointers when the attach transaction commits
ResolvedReal == [t \in Targets |-> IF t \in RegTargets THEN ResolveReg(t) ELSE Real[t]]

\* JETIFY_DETOUR_ATTACH(_realFn, _hookFn): the targets DetourAttach is called for
AttachRequests(real) == {t \in AttachList : real[t] # NoFn}

\* JETIFY_DETOUR_DETACH(_realFn, _hookFn): the targets DetourDetach is called for
DetachRequests == {t \in DetachList : Real[t] # NoFn}

\* DetourDetach accepts a pointer only if it points at a trampoline
IsTrampoline(t, loc) == loc >= 1 /\ loc <= Len(tramp[t])

\* DetourAttach(&real, hook) committed: a new trampoline takes the code found
\* at the pointer, the code at the pointer becomes a jump to the hook and the
\* pointer is moved to the trampoline.
AttachedTramp(t, loc) ==
    LET new == [code |-> CodeAt(t, loc), target |-> loc, restore |-> CodeAt(t, loc)]
        old == IF loc = 0 THEN tramp[t] ELSE [tramp[t] EXCEPT ![loc].code = "hook"]
    IN  Append(old, new)

\* DetourDetach(&real, hook) committed: the code at the trampoline's target is
\* restored, the pointer is moved back to the target and the trampoline, the
\* newest of the target, is freed.
DetachedTramp(t, loc) ==
    LET tr == tramp[t][loc]
        restored == IF tr.target = 0 THEN tramp[t]
                    ELSE [tramp[t] EXCEPT ![tr.target].code = tr.restore]
    IN  SubSeq(restored, 1, loc - 1)

\* no target is redirected and no trampoline exists
Unhooked == \A t \in Targets : entry[t] = "body" /\ tramp[t] = <<>>

\* hist with one more operation, the latest HistLen kept
Noted(op) ==
    LET h == Append(hist, op)
    IN  IF Len(h) <= HistLen THEN h ELSE SubSeq(h, Len(h) - HistLen + 1, Len(h))

\* an entry-point call is noted once an attach or detach has been
NotedCall(api) ==
    IF hist = <<>> THEN hist ELSE Noted([op |-> api, ret |-> 0, fresh |-> Unhooked])

\* The hooks after Jetify_AttachHooks, ApiHooks.c:263-306.  commitError: what
\* DetourTransactionCommit returns.
AfterAttach(commitError) ==
    LET real == ResolvedReal
        req == AttachRequests(real)
    IN  IF commitError = NO_ERROR
        THEN [entry |-> [t \in Targets |->
                            IF t \in req /\ real[t] = 0 THEN "hook" ELSE entry[t]],
              tramp |-> [t \in Targets |->
                            IF t \in req THEN AttachedTramp(t, real[t]) ELSE tramp[t]],
              Real |-> [t \in Targets |->
                            IF t \in req THEN Len(tramp[t]) + 1 ELSE real[t]],
              ret |-> commitError, requests |-> req]
        ELSE [entry |-> entry, tramp |-> tramp, Real |-> real,
              ret |-> commitError, requests |-> req]

Jetify_AttachHooks(commitError) ==
    LET h == AfterAttach(commitError)
    IN  /\ \A t \in h.requests : Len(tramp[t]) < MaxLayers
        /\ entry' = h.entry
        /\ tramp' = h.tramp
        /\ Real' = h.Real
        /\ last' = [api |-> "Jetify_AttachHooks", hooked |-> FALSE, ret |-> h.ret,
                    requests |-> h.requests]
        /\ hist' = Noted([op |-> "attach", ret |-> h.ret, fresh |-> Unhooked])
        /\ UNCHANGED <<threadVars, property, env, modules, logVars, disk, g_hRegWSManClient, probe>>

\* The hooks after Jetify_DetachHooks, ApiHooks.c:308-331.  A DetourDetach
\* that is refused makes the commit fail with its error.
AfterDetach(commitError) ==
    LET req == DetachRequests
        error == IF \E t \in req : ~IsTrampoline(t, Real[t])
                 THEN ERROR_INVALID_BLOCK ELSE commitError
    IN  IF error = NO_ERROR
        THEN [entry |-> [t \in Targets |->
                            IF t \in req /\ tramp[t][Real[t]].target = 0
                            THEN tramp[t][Real[t]].restore ELSE entry[t]],
              tramp |-> [t \in Targets |->
                            IF t \in req THEN DetachedTramp(t, Real[t]) ELSE tramp[t]],
              Real |-> [t \in Targets |->
                            IF t \in req THEN tramp[t][Real[t]].target ELSE Real[t]],
              ret |-> error, requests |-> req]
        ELSE [entry |-> entry, tramp |-> tramp, Real |-> Real,
              ret |-> error, requests |-> req]

Jetify_DetachHooks(commitError) ==
    LET h == AfterDetach(commitError)
    IN  /\ entry' = h.entry
        /\ tramp' = h.tramp
        /\ Real' = h.Real
        /\ last' = [api |-> "Jetify_DetachHooks", hooked |-> FALSE, ret |-> h.ret,
                    requests |-> h.requests]
        /\ hist' = Noted([op |-> "detach", ret |-> h.ret, fresh |-> Unhooked])
        /\ UNCHANGED <<threadVars, property, env, modules, logVars, disk, g_hRegWSManClient, probe>>

-----------------------------------------------------------------------------
(* Jetify_Init and Jetify_Uninit, Jetify.c:9-31 *)

\* GetModuleFileNameA of the module that holds the hooks
LibraryFilePath == <<"C",":","\\","j",".","d","l","l">>

\* Jetify_Init: Jetify_LogOpen, Jetify_AttachHooks (its result dropped, line
\* 14), WSManDll_Init, whose WSManDll_ShouldInit logs the module path at DEBUG
\* (WSMan.c:139); the result is true (line 19).  attach: what
\* Jetify_AttachHooks returned; diskAtEntry: the files as the call found them.
Jetify_Init(failed, fopenOk, commitError) ==
    LET o == AfterLogOpen(failed, fopenOk)
        h == AfterAttach(commitError)
        active == o.enabled /\ o.level # JETIFY_LOG_OFF /\ JETIFY_LOG_DEBUG >= o.level
        lines == IF active /\ o.file # NULL
                 THEN <<[fmt |-> "WSMan_ShouldInit: %s", args |-> <<LibraryFilePath>>,
                         s |-> {1}]>>
                 ELSE <<>>
    IN  /\ \A t \in h.requests : Len(tramp[t]) < MaxLayers
        /\ g_LogInitialized' = TRUE
        /\ g_LogLevel' = o.level
        /\ g_LogEnabled' = o.enabled
        /\ g_LogFilePath' = o.path
        /\ g_LogFile' = o.file
        /\ disk' = IF lines = <<>> THEN o.disk
                   ELSE [o.disk EXCEPT ![Deref(o.file)] = @ \o lines]
        /\ entry' = h.entry
        /\ tramp' = h.tramp
        /\ Real' = h.Real
        /\ last' = [api |-> "Jetify_Init", hooked |-> FALSE, outcome |-> "returned",
                    ret |-> TRUE, attach |-> h.ret, leaked |-> o.leaked,
                    diskAtEntry |-> disk]
        /\ hist' = Noted([op |-> "init", ret |-> h.ret, fresh |-> Unhooked])
        /\ UNCHANGED <<threadVars, property, env, modules, g_hRegWSManClient, probe>>

\* Jetify_Uninit: WSManDll_Uninit, Jetify_DetachHooks (its result dropped,
\* line 27), Jetify_LogClose; the function returns nothing.  detach: what
\* Jetify_DetachHooks returned.
Jetify_Uninit(commitError) ==
    LET h == AfterDetach(commitError)
    IN  /\ entry' = h.entry
        /\ tramp' = h.tramp
        /\ Real' = h.Real
        /\ g_LogFile' = NULL
        /\ last' = [api |-> "Jetify_Uninit", hooked |-> FALSE, outcome |-> "returned",
                    detach |-> h.ret]
        /\ hist' = Noted([op |-> "uninit", ret |-> h.ret, fresh |-> Unhooked])
        /\ UNCHANGED <<threadVars, property, env, modules, g_LogInitialized, g_LogEnabled, g_LogLevel,
                       g_LogFilePath, disk, g_hRegWSManClient, probe>>

-----------------------------------------------------------------------------
(* Inputs *)

\* the sets of allocation sites that fail during one call
FailSets(sites) == {F \in SUBSET sites : Cardinality(F) <= MaxAllocFailures}

\* HINTERNET values and BOOL results of the real WinHTTP functions
HInternets == {0, 1}

\* HKEY values the real registry hands out, and NULL
HKeys == 0..MaxHandle

EnvValues(name) ==
    CASE name = "WINRM_PROXY" -> {NULL, Ptr(<<"p">>), Ptr(<<"C3", "A9">>)}
      [] name = "WINRM_PROXY_BYPASS" -> {NULL, Ptr(<<"*", ".", "l">>)}
      [] name = "JETIFY_LOG_LEVEL" ->
             {NULL, Ptr(<<"D","E","B","U","G">>), Ptr(<<"E","R","R","O","R">>),
              Ptr(<<"O","F","F">>), Ptr(<<"1">>), Ptr(<<"6">>), Ptr(<<"7">>)}
      [] name = "JETIFY_LOG_FILE_PATH" -> {NULL, Ptr(CustomLogPath)}

Agents == {NULL, Ptr(WinRMAgent), Ptr(ToLower(WinRMAgent)), Ptr(SubSeq(WinRMAgent, 1, 9))}

WinHttpOpenArgs ==
    [pszAgentW : Agents,
     dwAccessType : {WINHTTP_ACCESS_TYPE_DEFAULT_PROXY, WINHTTP_ACCESS_TYPE_NAMED_PROXY},
     pszProxyW : {NULL, Ptr(<<"q">>)},
     pszProxyBypassW : {NULL, Ptr(<<"b">>)},
     dwFlags : {0, WINHTTP_FLAG_ASYNC}]

WinHttpConnectArgs ==
    [hSession : {1}, pszServerNameW : {NULL, Ptr(<<"h">>), Ptr(<<"%", "s">>)},
     nServerPort : {5985, 5986}, dwReserved : {0}]

WinHttpSetOptionArgs ==
    [hInternet : {1}, dwOption : {31, 84}, lpBuffer : {NULL, Ptr(<<0, 0, 0, 0>>)},
     dwBufferLength : {0, 4}]

WinHttpOpenRequestArgs ==
    [hConnect : {1}, pszVerbW : {NULL, Ptr(<<"P","O","S","T">>)},
     pszObjectNameW : {Ptr(<<"/","w","s","m","a","n">>)}, pszVersionW : {NULL},
     pszReferrerW : {NULL}, ppszAcceptTypesW : {NULL}, dwFlags : {0, 8388608}]

WinHttpSendRequestArgs ==
    [hRequest : {1}, lpszHeaders : {NULL}, dwHeadersLength : {0},
     lpOptional : {NULL, Ptr(<<"x">>)}, dwOptionalLength : {0, 1},
     dwTotalLength : {0, 1}, dwContext : {0}]

WinHttpCloseHandleArgs == [hInternet : {0, 1}]

RegOpenKeyExWArgs ==
    [hKey : {HKEY_LOCAL_MACHINE, HKEY_CURRENT_USER, 1},
     lpSubKeyW : {NULL, Ptr(WSManClientPath), Ptr(ToLower(WSManClientPath)),
                  Ptr(SubSeq(WSManClientPath, 1, 8))},
     ulOptions : {0, REG_OPTION_OPEN_LINK},
     samDesired : {KEY_READ, KEY_ALL_ACCESS},
     phkResult : {Ptr(h) : h \in HKeys}]

\* a caller's buffer of n bytes, not yet written
Buffer(n) == [i \in 1..n |-> 255]

\* lpData and lpcbData: no buffer at all, a size probe, a buffer without a
\* size, and buffers of 2, 4 and 8 bytes with their size
RegQueryBuffers ==
    {[lpData |-> NULL, lpcbData |-> NULL],
     [lpData |-> NULL, lpcbData |-> Ptr(0)],
     [lpData |-> NULL, lpcbData |-> Ptr(4)],
     [lpData |-> Ptr(Buffer(4)), lpcbData |-> NULL]}
    \cup {[lpData |-> Ptr(Buffer(n)), lpcbData |-> Ptr(n)] : n \in {2, 4, 8}}

RegQueryValueExWArgs ==
    {[hKey |-> h, lpValueNameW |-> n, lpReserved |-> NULL, lpType |-> t,
      lpData |-> b.lpData, lpcbData |-> b.lpcbData] :
        h \in HKeys,
        n \in {NULL, Ptr(TrustedHosts), Ptr(ToLower(TrustedHosts)),
               Ptr(TrustedHostsList), Ptr(SubSeq(TrustedHosts, 1, 7))},
        t \in {NULL, Ptr(REG_NONE)},
        b \in RegQueryBuffers}

\* what the real registry may hold for a queried value
RegistryValues ==
    {NULL,
     Ptr([type |-> REG_DWORD, bytes |-> <<0, 0, 0, 0>>]),
     Ptr([type |-> REG_SZ, bytes |-> <<97, 0, 98, 0, 0, 0>>])}

-----------------------------------------------------------------------------
(* Actions: the host thread calls an entry point, then takes the result *)

\* no call is waiting for the host thread to take its result
Idle == [api |-> "none", hooked |-> FALSE]

NoProbe == [hKey |-> 0, lpValueNameW |-> NULL, size |-> 0]

\* What the host thread keeps of a call that asked for the size of a value (no
\* data buffer, a size variable) and was answered "more data": the first half
\* of probe-then-fetch.
ProbeAfter(a, result) ==
    IF a.lpData = NULL /\ a.lpcbData # NULL /\ a.lpValueNameW # NULL
       /\ result.outcome = "returned" /\ result.ret = ERROR_MORE_DATA
    THEN [hKey |-> a.hKey, lpValueNameW |-> a.lpValueNameW,
          size |-> Deref(result.outs.lpcbData)]
    ELSE NoProbe

\* the host thread takes the result of the call it made
HostReturn ==
    /\ last # Idle
    /\ last' = Idle
    /\ probe' = IF last.api = "RegQueryValueExW" THEN ProbeAfter(last.args, last)
                ELSE probe
    /\ UNCHANGED <<threadVars, property, env, modules, logVars, disk, hookVars, g_hRegWSManClient, hist>>

\* SetEnvironmentVariableA(name, value), as by Jetify_SetEnv
Jetify_SetEnv(names) ==
    \E name \in names : \E value \in EnvValues(name) :
        /\ last = Idle
        /\ env' = [env EXCEPT ![name] = value]
        /\ last' = [api |-> "Jetify_SetEnv", hooked |-> FALSE]
        /\ UNCHANGED <<threadVars, property, modules, logVars, disk, hookVars, g_hRegWSManClient, probe, hist>>

LogOpen ==
    \E failed \in FailSets({"level", "path"}) : \E fopenOk \in BOOLEAN :
        last = Idle /\ Jetify_LogOpen(failed, fopenOk)

LogClose == last = Idle /\ Jetify_LogClose

\* messages handed to Jetify_Log as the argument of a "%s"
LogTexts == {<<"a">>, <<"5", "%">>}

Log ==
    \E text \in LogTexts :
        last = Idle /\ Jetify_Log([fmt |-> "%s", args |-> <<text>>, s |-> {1}])

\* 1, 16 and 17 bytes: a short line, a full line, a full line and a short one
HexDumpData == {<<65>>, [i \in 1..16 |-> 65], [i \in 1..17 |-> IF i = 17 THEN 10 ELSE 65]}

\* values an uninitialised stack byte may hold
StackBytes == {0, 204}

LogHexDump ==
    \E data \in HexDumpData : \E gap \in StackBytes :
        last = Idle /\ Jetify_LogHexDump(data, gap)

AttachHooks ==
    \E commitError \in {NO_ERROR, ERROR_NOT_ENOUGH_MEMORY} :
        last = Idle /\ Jetify_AttachHooks(commitError)

DetachHooks ==
    \E commitError \in {NO_ERROR, ERROR_NOT_ENOUGH_MEMORY} :
        last = Idle /\ Jetify_DetachHooks(commitError)

InitCall ==
    \E failed \in FailSets({"level", "path"}) : \E fopenOk \in BOOLEAN :
    \E commitError \in {NO_ERROR, ERROR_NOT_ENOUGH_MEMORY} :
        last = Idle /\ Jetify_Init(failed, fopenOk, commitError)

UninitCall ==
    \E commitError \in {NO_ERROR, ERROR_NOT_ENOUGH_MEMORY} :
        last = Idle /\ Jetify_Uninit(commitError)

\* One step of a thread that calls Jetify_AttachHooks (op = "attach") or
\* Jetify_DetachHooks (op = "detach"): DetourTransactionBegin, ApiHooks.c:267
\* and 311.  Nothing in either function waits for another thread.  Detours
\* starts a transaction only when none is pending; the error it returns
\* otherwise is not looked at.
TransactionBegin(t, op) ==
    /\ pc[t] = "idle"
    /\ pc' = [pc EXCEPT ![t] = op]
    /\ s_nPendingThreadId' = IF s_nPendingThreadId = 0 THEN t ELSE s_nPendingThreadId
    /\ UNCHANGED <<hConfigKey, property, env, modules, logVars, disk, hookVars, g_hRegWSManClient, probe,
                   hist, last>>

\* The rest of the function, up to the return of DetourTransactionCommit
\* (lines 268-305, 312-330).  For the owner of the pending transaction it is
\* the transaction of AfterAttach or AfterDetach.  For another thread
\* DetourAttach, DetourDetach and the commit are refused with
\* ERROR_INVALID_OPERATION; the assignments of lines 280-290 to the registry
\* Real_ pointers are made all the same.
TransactionCommit(t, commitError) ==
    LET owner == s_nPendingThreadId = t
        h == IF pc[t] = "attach" THEN AfterAttach(commitError)
             ELSE AfterDetach(commitError)
    IN  /\ pc[t] # "idle"
        /\ owner /\ pc[t] = "attach" => \A x \in h.requests : Len(tramp[x]) < MaxLayers
        /\ pc' = [pc EXCEPT ![t] = "idle"]
        /\ s_nPendingThreadId' = IF owner THEN 0 ELSE s_nPendingThreadId
        /\ entry' = IF owner THEN h.entry ELSE entry
        /\ tramp' = IF owner THEN h.tramp ELSE tramp
        /\ Real' = IF owner THEN h.Real
                   ELSE IF pc[t] = "attach" THEN ResolvedReal ELSE Real
        /\ hist' = Noted([op |-> pc[t],
                          ret |-> IF owner THEN h.ret ELSE ERROR_INVALID_OPERATION,
                          fresh |-> Unhooked])
        /\ UNCHANGED <<hConfigKey, property, env, modules, logVars, disk, g_hRegWSManClient, probe,
                       last>>

ThreadBegin == \E t \in Threads : \E op \in {"attach", "detach"} : TransactionBegin(t, op)

ThreadCommit ==
    \E t \in Threads : \E commitError \in {NO_ERROR, ERROR_NOT_ENOUGH_MEMORY} :
        TransactionCommit(t, commitError)

WinHttpOpen(A, traced) ==
    \E a \in A : \E failed \in FailSets(AllocSites) : \E hInternet \in HInternets :
        /\ last = Idle
        /\ IF entry["WinHttpOpen"] = "hook"
           THEN Hook_WinHttpOpen(a, failed, hInternet, traced)
           ELSE Original("WinHttpOpen", a, hInternet, <<>>) /\ disk' = disk
        /\ hist' = NotedCall("call")
        /\ UNCHANGED <<threadVars, property, env, modules, logVars, hookVars, g_hRegWSManClient, probe>>

WinHttpConnect(A) ==
    \E a \in A : \E failed \in FailSets({"pszServerNameA"}) : \E hInternet \in HInternets :
        /\ last = Idle
        /\ IF entry["WinHttpConnect"] = "hook"
           THEN Hook_WinHttpConnect(a, failed, hInternet)
           ELSE Original("WinHttpConnect", a, hInternet, <<>>) /\ disk' = disk
        /\ hist' = NotedCall("call")
        /\ UNCHANGED <<threadVars, property, env, modules, logVars, hookVars, g_hRegWSManClient, probe>>

WinHttpSetOption(A) ==
    \E a \in A : \E success \in {0, 1} :
        /\ last = Idle
        /\ IF entry["WinHttpSetOption"] = "hook"
           THEN Hook_WinHttpSetOption(a, success)
           ELSE Original("WinHttpSetOption", a, success, <<>>) /\ disk' = disk
        /\ hist' = NotedCall("call")
        /\ UNCHANGED <<threadVars, property, env, modules, logVars, hookVars, g_hRegWSManClient, probe>>

WinHttpOpenRequest(A) ==
    \E a \in A : \E hRequest \in HInternets :
        /\ last = Idle
        /\ IF entry["WinHttpOpenRequest"] = "hook"
           THEN Hook_WinHttpOpenRequest(a, hRequest)
           ELSE Original("WinHttpOpenRequest", a, hRequest, <<>>) /\ disk' = disk
        /\ hist' = NotedCall("call")
        /\ UNCHANGED <<threadVars, property, env, modules, logVars, hookVars, g_hRegWSManClient, probe>>

WinHttpSendRequest(A) ==
    \E a \in A : \E success \in {0, 1} :
        /\ last = Idle
        /\ IF entry["WinHttpSendRequest"] = "hook"
           THEN Hook_WinHttpSendRequest(a, success)
           ELSE Original("WinHttpSendRequest", a, success, <<>>) /\ disk' = disk
        /\ hist' = NotedCall("call")
        /\ UNCHANGED <<threadVars, property, env, modules, logVars, hookVars, g_hRegWSManClient, probe>>

WinHttpCloseHandle(A) ==
    \E a \in A : \E success \in {0, 1} :
        /\ last = Idle
        /\ IF entry["WinHttpCloseHandle"] = "hook"
           THEN Hook_WinHttpCloseHandle(a, success)
           ELSE Original("WinHttpCloseHandle", a, success, <<>>) /\ disk' = disk
        /\ hist' = NotedCall("call")
        /\ UNCHANGED <<threadVars, property, env, modules, logVars, hookVars, g_hRegWSManClient, probe>>

\* The real RegOpenKeyExW gives a handle on success; when it fails it leaves
\* the caller's HKEY variable as it was or clears it.
RegOpenKeyExW(A) ==
    \E a \in A : \E lstatus \in {ERROR_SUCCESS, ERROR_FILE_NOT_FOUND, ERROR_ACCESS_DENIED} :
    \E hkResult \in HKeys :
        /\ last = Idle
        /\ lstatus = ERROR_SUCCESS => hkResult # 0
        /\ lstatus # ERROR_SUCCESS => hkResult \in {0, Deref(a.phkResult)}
        /\ IF entry["RegOpenKeyExW"] = "hook"
           THEN Hook_RegOpenKeyExW(a, lstatus, hkResult)
           ELSE /\ Original("RegOpenKeyExW", a, lstatus, [phkResult |-> Ptr(hkResult)])
                /\ g_hRegWSManClient' = g_hRegWSManClient
        /\ hist' = NotedCall("call")
        /\ UNCHANGED <<threadVars, property, env, modules, logVars, disk, hookVars, probe>>

RegQueryValueExW(A) ==
    \E a \in A : \E value \in RegistryValues :
        /\ last = Idle
        /\ IF entry["RegQueryValueExW"] = "hook"
           THEN Hook_RegQueryValueExW(a, value)
           ELSE Original("RegQueryValueExW", a, Real_RegQueryValueExW(a, value).lstatus,
                         Real_RegQueryValueExW(a, value).mem)
        /\ hist' = NotedCall("call")
        /\ UNCHANGED <<threadVars, property, env, modules, logVars, disk, hookVars, g_hRegWSManClient, probe>>

-----------------------------------------------------------------------------
(* Initial states and specifications *)

Modules == {"KernelBase.dll", "advapi32.dll"}

\* The process after the DLL is loaded and before Jetify_Init: the static
\* initialisers of ApiHooks.c and Logger.c, on a system whose environment
\* and modules may be any.
Init ==
    /\ env \in [WINRM_PROXY : EnvValues("WINRM_PROXY"),
                WINRM_PROXY_BYPASS : EnvValues("WINRM_PROXY_BYPASS"),
                JETIFY_LOG_LEVEL : EnvValues("JETIFY_LOG_LEVEL"),
                JETIFY_LOG_FILE_PATH : EnvValues("JETIFY_LOG_FILE_PATH")]
    /\ modules \in [Modules -> {"absent", "loaded", "exports"}]
    /\ g_LogInitialized = FALSE
    /\ g_LogEnabled = FALSE
    /\ g_LogLevel = JETIFY_LOG_DEBUG
    /\ g_LogFilePath = <<>>
    /\ g_LogFile = NULL
    /\ disk = [p \in LogPaths |-> <<>>]
    /\ entry = [t \in Targets |-> "body"]
    /\ tramp = [t \in Targets |-> <<>>]
    /\ Real = [t \in Targets |-> IF t \in WinHttpTargets THEN 0 ELSE NoFn]
    /\ g_hRegWSManClient = 0
    /\ probe = NoProbe
    /\ hist = <<>>
    /\ last = Idle
    /\ pc = [t \in Threads |-> "idle"]
    /\ s_nPendingThreadId = 0
    /\ hConfigKey = [t \in Threads |-> 0]
    /\ property = [n \in PropertyNames |-> <<>>]

\* The process once Jetify_AttachHooks has committed, on a system where both
\* modules export the registry API: every target of AttachList is redirected
\* through one trampoline.
Hooked ==
    /\ modules = [m \in Modules |-> "exports"]
    /\ entry = [t \in Targets |-> IF t \in AttachList THEN "hook" ELSE "body"]
    /\ tramp = [t \in Targets |->
                  IF t \in AttachList
                  THEN <<[code |-> "body", target |-> 0, restore |-> "body"]>>
                  ELSE <<>>]
    /\ Real = [t \in Targets |-> IF t \in AttachList THEN 1 ELSE 0]

InitFresh ==
    /\ Init
    /\ env = [n \in EnvNames |-> NULL]

\* The life cycle of the hooks: attach and detach transactions and calls of
\* every entry point, with one argument tuple each.
Next ==
    \/ AttachHooks
    \/ DetachHooks
    \/ WinHttpOpen({[pszAgentW |-> Ptr(WinRMAgent), dwAccessType |-> 0,
                     pszProxyW |-> NULL, pszProxyBypassW |-> NULL, dwFlags |-> 0]},
                  FALSE)
    \/ WinHttpConnect({[hSession |-> 1, pszServerNameW |-> Ptr(<<"h">>),
                        nServerPort |-> 5985, dwReserved |-> 0]})
    \/ WinHttpSetOption({[hInternet |-> 1, dwOption |-> 31, lpBuffer |-> NULL,
                          dwBufferLength |-> 0]})
    \/ WinHttpOpenRequest({[hConnect |-> 1, pszVerbW |-> NULL,
                            pszObjectNameW |-> Ptr(<<"/","w","s","m","a","n">>),
                            pszVersionW |-> NULL, pszReferrerW |-> NULL,
                            ppszAcceptTypesW |-> NULL, dwFlags |-> 0]})
    \/ WinHttpSendRequest({[hRequest |-> 1, lpszHeaders |-> NULL, dwHeadersLength |-> 0,
                            lpOptional |-> NULL, dwOptionalLength |-> 0,
                            dwTotalLength |-> 0, dwContext |-> 0]})
    \/ WinHttpCloseHandle({[hInternet |-> 1]})
    \/ RegOpenKeyExW({[hKey |-> HKEY_LOCAL_MACHINE, lpSubKeyW |-> Ptr(WSManClientPath),
                       ulOptions |-> 0, samDesired |-> KEY_READ, phkResult |-> Ptr(0)]})
    \/ RegQueryValueExW({[hKey |-> 1, lpValueNameW |-> Ptr(TrustedHosts),
                          lpReserved |-> NULL, lpType |-> Ptr(REG_NONE),
                          lpData |-> Ptr(Buffer(4)), lpcbData |-> Ptr(4)]})
    \/ HostReturn

Spec == InitFresh /\ [][Next]_vars

\* The WinHTTP session-open hook, attached, under every proxy environment
\* and logging configuration.
InitWinHttpOpen ==
    /\ env \in [WINRM_PROXY : EnvValues("WINRM_PROXY"),
                WINRM_PROXY_BYPASS : EnvValues("WINRM_PROXY_BYPASS"),
                JETIFY_LOG_LEVEL : {NULL, Ptr(<<"1">>)},
                JETIFY_LOG_FILE_PATH : {NULL}]
    /\ Hooked
    /\ g_LogInitialized = FALSE
    /\ g_LogEnabled = FALSE
    /\ g_LogLevel = JETIFY_LOG_DEBUG
    /\ g_LogFilePath = <<>>
    /\ g_LogFile = NULL
    /\ disk = [p \in LogPaths |-> <<>>]
    /\ g_hRegWSManClient = 0
    /\ probe = NoProbe
    /\ hist = <<>>
    /\ last = Idle
    /\ pc = [t \in Threads |-> "idle"]
    /\ s_nPendingThreadId = 0
    /\ hConfigKey = [t \in Threads |-> 0]
    /\ property = [n \in PropertyNames |-> <<>>]

NextWinHttpOpen ==
    \/ Jetify_SetEnv({"WINRM_PROXY", "WINRM_PROXY_BYPASS"})
    \/ LogOpen
    \/ LogClose
    \/ WinHttpOpen(WinHttpOpenArgs, FALSE)
    \/ HostReturn

SpecWinHttpOpen == InitWinHttpOpen /\ [][NextWinHttpOpen]_vars

\* The registry hooks, attached.
InitRegistry ==
    /\ env = [n \in EnvNames |-> NULL]
    /\ Hooked
    /\ g_LogInitialized = FALSE
    /\ g_LogEnabled = FALSE
    /\ g_LogLevel = JETIFY_LOG_DEBUG
    /\ g_LogFilePath = <<>>
    /\ g_LogFile = NULL
    /\ disk = [p \in LogPaths |-> <<>>]
    /\ g_hRegWSManClient = 0
    /\ probe = NoProbe
    /\ hist = <<>>
    /\ last = Idle
    /\ pc = [t \in Threads |-> "idle"]
    /\ s_nPendingThreadId = 0
    /\ hConfigKey = [t \in Threads |-> 0]
    /\ property = [n \in PropertyNames |-> <<>>]

NextRegistry ==
    \/ RegOpenKeyExW(RegOpenKeyExWArgs)
    \/ RegQueryValueExW(RegQueryValueExWArgs)
    \/ HostReturn

SpecRegistry == InitRegistry /\ [][NextRegistry]_vars

\* The five pass-through hooks, attached (WinHttpSendRequest has a hook
\* function but is not in AttachList), under every logging configuration.
InitPassThrough ==
    /\ env \in [WINRM_PROXY : {NULL}, WINRM_PROXY_BYPASS : {NULL},
                JETIFY_LOG_LEVEL : EnvValues("JETIFY_LOG_LEVEL"),
                JETIFY_LOG_FILE_PATH : {NULL}]
    /\ Hooked
    /\ g_LogInitialized = FALSE
    /\ g_LogEnabled = FALSE
    /\ g_LogLevel = JETIFY_LOG_DEBUG
    /\ g_LogFilePath = <<>>
    /\ g_LogFile = NULL
    /\ disk = [p \in LogPaths |-> <<>>]
    /\ g_hRegWSManClient = 0
    /\ probe = NoProbe
    /\ hist = <<>>
    /\ last = Idle
    /\ pc = [t \in Threads |-> "idle"]
    /\ s_nPendingThreadId = 0
    /\ hConfigKey = [t \in Threads |-> 0]
    /\ property = [n \in PropertyNames |-> <<>>]

NextPassThrough ==
    \/ LogOpen
    \/ LogClose
    \/ WinHttpConnect(WinHttpConnectArgs)
    \/ WinHttpSetOption(WinHttpSetOptionArgs)
    \/ WinHttpOpenRequest(WinHttpOpenRequestArgs)
    \/ WinHttpSendRequest(WinHttpSendRequestArgs)
    \/ WinHttpCloseHandle(WinHttpCloseHandleArgs)
    \/ HostReturn

SpecPassThrough == InitPassThrough /\ [][NextPassThrough]_vars

\* values of JETIFY_LOG_LEVEL: the seven names, the numbers 0 to 7
LevelNames == << <<"T","R","A","C","E">>, <<"D","E","B","U","G">>, <<"I","N","F","O">>,
                 <<"W","A","R","N">>, <<"E","R","R","O","R">>, <<"F","A","T","A","L">>,
                 <<"O","F","F">> >>

LevelValues ==
    {NULL} \cup {Ptr(LevelNames[i]) : i \in 1..7} \cup {Ptr(<<Digits[i]>>) : i \in 1..8}

\* The logging sink from the load of the module, under every value of
\* JETIFY_LOG_LEVEL.
InitLogger ==
    /\ env \in [WINRM_PROXY : {NULL}, WINRM_PROXY_BYPASS : {NULL},
                JETIFY_LOG_LEVEL : LevelValues,
                JETIFY_LOG_FILE_PATH : {NULL}]
    /\ modules = [m \in Modules |-> "exports"]
    /\ g_LogInitialized = FALSE
    /\ g_LogEnabled = FALSE
    /\ g_LogLevel = JETIFY_LOG_DEBUG
    /\ g_LogFilePath = <<>>
    /\ g_LogFile = NULL
    /\ disk = [p \in LogPaths |-> <<>>]
    /\ entry = [t \in Targets |-> "body"]
    /\ tramp = [t \in Targets |-> <<>>]
    /\ Real = [t \in Targets |-> IF t \in WinHttpTargets THEN 0 ELSE NoFn]
    /\ g_hRegWSManClient = 0
    /\ probe = NoProbe
    /\ hist = <<>>
    /\ last = Idle
    /\ pc = [t \in Threads |-> "idle"]
    /\ s_nPendingThreadId = 0
    /\ hConfigKey = [t \in Threads |-> 0]
    /\ property = [n \in PropertyNames |-> <<>>]

NextLogger ==
    \/ LogOpen
    \/ Log
    \/ LogHexDump
    \/ LogClose
    \/ HostReturn

SpecLogger == InitLogger /\ [][NextLogger]_vars

\* The two exported entry points, called by the host any number of times,
\* and calls of two hooked functions in between; logging off or at DEBUG.
InitEntryPoints ==
    /\ Init
    /\ env \in [WINRM_PROXY : {NULL}, WINRM_PROXY_BYPASS : {NULL},
                JETIFY_LOG_LEVEL : {NULL, Ptr(<<"1">>)},
                JETIFY_LOG_FILE_PATH : {NULL}]
    /\ modules \in [Modules -> {"absent", "exports"}]

NextEntryPoints ==
    \/ InitCall
    \/ UninitCall
    \/ WinHttpSetOption({[hInternet |-> 1, dwOption |-> 31, lpBuffer |-> NULL,
                          dwBufferLength |-> 0]})
    \/ RegOpenKeyExW({[hKey |-> HKEY_LOCAL_MACHINE, lpSubKeyW |-> Ptr(WSManClientPath),
                       ulOptions |-> 0, samDesired |-> KEY_READ, phkResult |-> Ptr(0)]})
    \/ HostReturn

SpecEntryPoints == InitEntryPoints /\ [][NextEntryPoints]_vars

\* Two threads of the host, each calling Jetify_AttachHooks and
\* Jetify_DetachHooks any number of times, their steps interleaved.
NextThreads ==
    \/ ThreadBegin
    \/ ThreadCommit

SpecThreads == InitFresh /\ [][NextThreads]_vars

\* Hook_WinHttpOpen, attached, called with a user agent that holds a '%',
\* among others, while the log is closed or open at level DEBUG.
WinHttpOpenPercentArgs ==
    [pszAgentW : {NULL, Ptr(WinRMAgent), Ptr(<<"%", "s">>)},
     dwAccessType : {WINHTTP_ACCESS_TYPE_DEFAULT_PROXY},
     pszProxyW : {NULL, Ptr(<<"q">>)},
     pszProxyBypassW : {NULL},
     dwFlags : {0}]

NextWinHttpOpenLogged ==
    \/ LogOpen
    \/ WinHttpOpen(WinHttpOpenPercentArgs, FALSE)
    \/ HostReturn

SpecWinHttpOpenLogged == InitWinHttpOpen /\ [][NextWinHttpOpenLogged]_vars

\* Hook_WinHttpOpen and Hook_WinHttpConnect, attached, with the heap events
\* of every call.  The logger is as the process start left it or as a
\* successful Jetify_LogOpen left it, with JETIFY_LOG_LEVEL unset (logging
\* stays disabled) or ERROR (logging enabled, DEBUG lines not written).
InitHeap ==
    /\ env \in [WINRM_PROXY : EnvValues("WINRM_PROXY"),
                WINRM_PROXY_BYPASS : EnvValues("WINRM_PROXY_BYPASS"),
                JETIFY_LOG_LEVEL : {NULL, Ptr(<<"E","R","R","O","R">>)},
                JETIFY_LOG_FILE_PATH : {NULL}]
    /\ Hooked
    /\ g_LogInitialized \in BOOLEAN
    /\ g_LogEnabled = (g_LogInitialized /\ env.JETIFY_LOG_LEVEL # NULL)
    /\ g_LogLevel = IF g_LogEnabled THEN JETIFY_LOG_ERROR ELSE JETIFY_LOG_DEBUG
    /\ g_LogFilePath = IF g_LogEnabled THEN DefaultLogPath ELSE <<>>
    /\ g_LogFile = IF g_LogEnabled THEN Ptr(DefaultLogPath) ELSE NULL
    /\ disk = [p \in LogPaths |-> <<>>]
    /\ g_hRegWSManClient = 0
    /\ probe = NoProbe
    /\ hist = <<>>
    /\ last = Idle
    /\ pc = [t \in Threads |-> "idle"]
    /\ s_nPendingThreadId = 0
    /\ hConfigKey = [t \in Threads |-> 0]
    /\ property = [n \in PropertyNames |-> <<>>]

\* the arguments of WinHttpOpen that decide what the hook allocates
WinHttpOpenHeapArgs ==
    {a \in WinHttpOpenArgs : a.dwAccessType = WINHTTP_ACCESS_TYPE_DEFAULT_PROXY
                             /\ a.dwFlags = 0}

NextHeap ==
    \/ WinHttpOpen(WinHttpOpenHeapArgs, TRUE)
    \/ WinHttpConnect(WinHttpConnectArgs)
    \/ HostReturn

SpecHeap == InitHeap /\ [][NextHeap]_vars

\* The registry hooks in a process that has not opened the configuration
\* path: every open is of another key.
NextBeforeOpen ==
    \/ RegOpenKeyExW({a \in RegOpenKeyExWArgs :
                         ~(/\ a.hKey = HKEY_LOCAL_MACHINE
                           /\ a.lpSubKeyW # NULL
                           /\ StrIEq(Deref(a.lpSubKeyW), WSManClientPath))})
    \/ RegQueryValueExW(RegQueryValueExWArgs)
    \/ HostReturn

SpecBeforeOpen == InitRegistry /\ [][NextBeforeOpen]_vars

\* Host threads that use the registry through the hooks.  A call of a hook
\* holds no lock and waits for nothing (ApiHooks.c:179-255), so the calls of
\* the threads interleave in every order.  The real registry hands out a
\* handle that no thread holds.
ThreadRegOpenKeyExW(t) ==
    \E a \in RegOpenKeyExWArgs :
    \E lstatus \in {ERROR_SUCCESS, ERROR_FILE_NOT_FOUND, ERROR_ACCESS_DENIED} :
    \E hkResult \in HKeys :
        LET path == /\ a.hKey = HKEY_LOCAL_MACHINE
                    /\ a.lpSubKeyW # NULL
                    /\ StrIEq(Deref(a.lpSubKeyW), WSManClientPath)
        IN  /\ last = Idle
            /\ a.ulOptions = 0 /\ a.samDesired = KEY_READ
            /\ lstatus = ERROR_SUCCESS
                   => /\ hkResult # 0
                      /\ \A u \in Threads : u # t \/ ~path => hConfigKey[u] # hkResult
            /\ lstatus # ERROR_SUCCESS => hkResult \in {0, Deref(a.phkResult)}
            /\ Hook_RegOpenKeyExW(a, lstatus, hkResult)
            /\ hConfigKey' = IF path /\ lstatus = ERROR_SUCCESS
                             THEN [hConfigKey EXCEPT ![t] = hkResult]
                             ELSE hConfigKey
            /\ hist' = NotedCall("call")
            /\ UNCHANGED <<pc, s_nPendingThreadId, property, env, modules, logVars, disk, hookVars,
                           probe>>

\* a thread queries a value of the configuration key it holds
ThreadRegQueryValueExW(t) ==
    \E a \in RegQueryValueExWArgs : \E value \in RegistryValues :
        /\ last = Idle
        /\ hConfigKey[t] # 0 /\ a.hKey = hConfigKey[t]
        /\ Hook_RegQueryValueExW(a, value)
        /\ hist' = NotedCall("call")
        /\ UNCHANGED <<threadVars, property, env, modules, logVars, disk, hookVars, g_hRegWSManClient,
                       probe>>

NextRegistryThreads ==
    \/ \E t \in Threads : ThreadRegOpenKeyExW(t)
    \/ \E t \in Threads : ThreadRegQueryValueExW(t)
    \/ HostReturn

SpecRegistryThreads == InitRegistry /\ [][NextRegistryThreads]_vars

-----------------------------------------------------------------------------
(* The custom actions of the Windows installer, CustomAction.cpp *)

\* enum Errors, CustomAction.cpp:4-19
InvalidScheme == 29998
InvalidPort == 29999
InvalidHost == 30000

ERROR_INSTALL_FAILURE == 1603

\* the Message column of the Error table for a code, in the session's language
ErrorMessage(error) ==
    IF error = InvalidScheme THEN <<"E", "s">>
    ELSE IF error = InvalidPort THEN <<"E", "p">>
    ELSE <<"E", "h">>

\* HandleValidationError, lines 162-185: the properties p when it returns.
\* lookup is the outcome of GetLocalizedErrorMessage (lines 101-157):
\* "failed" (a database call or calloc fails; errMessage stays null and the
\* function leaves before MsiSetPropertyW), "empty" (the record holds an
\* empty message: MsiSetPropertyW gets a null value, which removes the
\* property) or "found".
HandleValidationError(p, error, lookup) ==
    IF lookup = "failed" THEN p
    ELSE IF lookup = "empty" THEN [p EXCEPT !["P.ERROR"] = <<>>]
    ELSE [p EXCEPT !["P.ERROR"] = ErrorMessage(error)]

\* IsValidPort, lines 187-215: every character a digit, then _wtoi in 1..65535
IsValidPort(port) ==
    IF \E i \in 1..Len(port) : ~IsDigit(port[i]) THEN FALSE
    ELSE LET portValue == atoi(port)
         IN  ~(portValue < 1 \/ portValue > 65535)

\* IsValidOption, lines 222-236
IsValidOption(option, validOptions) ==
    \E i \in 1..Len(validOptions) : StrIEq(option, validOptions[i])

VALID_SCHEMES == << <<"h","t","t","p">>, <<"h","t","t","p","s">> >>

RECURSIVE UrlHostName(_)
\* UrlGetPartW(uri, URL_PART_HOSTNAME) for the uri scheme://host:port, given
\* what follows "://": the characters before the first ':' or '/'
UrlHostName(rest) ==
    IF rest = <<>> \/ Head(rest) = ":" \/ Head(rest) = "/" THEN <<>>
    ELSE <<Head(rest)>> \o UrlHostName(Tail(rest))

\* ValidateAccessUri, lines 844-946, with WcaInitialize and the property calls
\* succeeding.  urlOk: UrlGetPartW succeeds (line 920).  error: the code
\* handed to HandleValidationError, 0 when none was; cmdSet: line 935 ran;
\* failed: hr at LExit is a failure.
AfterValidateAccessUri(lookup, urlOk) ==
    LET cleared == [property EXCEPT !["P.ERROR"] = <<>>]
        szAccessUriScheme == property["P.ACCESSURI_SCHEME"]
        szAccessUriHost == property["P.ACCESSURI_HOST"]
        szAccessUriPort == property["P.ACCESSURI_PORT"]
        rejected(p, error) ==
            [property |-> HandleValidationError(p, error, lookup),
             error |-> error, cmdSet |-> FALSE, failed |-> FALSE]
        http == IF StrIEq(szAccessUriScheme, <<"h","t","t","p">>)
                THEN [cleared EXCEPT !["P.HTTPURI_SCHEME"] = <<"h","t","t","p">>]
                ELSE cleared
        uri == szAccessUriScheme \o <<":", "/", "/">> \o szAccessUriHost
               \o <<":">> \o szAccessUriPort
        wszHost == UrlHostName(SubSeq(uri, Len(szAccessUriScheme) + 4, Len(uri)))
        psCommand == <<"S","e","t","-","D","G","a","t","e","w","a","y",
                       "H","o","s","t","n","a","m","e"," ">> \o wszHost
    IN  IF Len(szAccessUriScheme) < 1 THEN rejected(cleared, InvalidScheme)
        ELSE IF ~IsValidOption(szAccessUriScheme, VALID_SCHEMES)
        THEN rejected(cleared, InvalidScheme)
        ELSE IF Len(szAccessUriHost) < 1 THEN rejected(cleared, InvalidHost)
        ELSE IF Len(szAccessUriPort) < 1 THEN rejected(cleared, InvalidPort)
        ELSE IF ~IsValidPort(szAccessUriPort) THEN rejected(cleared, InvalidPort)
        ELSE IF ~urlOk THEN [rejected(http, InvalidHost) EXCEPT !.failed = TRUE]
        ELSE [property |-> [http EXCEPT !["P.ACCESSURI_CMD"] = psCommand],
              error |-> 0, cmdSet |-> TRUE, failed |-> FALSE]

ValidateAccessUri ==
    \E lookup \in {"failed", "empty", "found"} : \E urlOk \in BOOLEAN :
        LET r == AfterValidateAccessUri(lookup, urlOk)
        IN  /\ last = Idle
            /\ property' = r.property
            /\ last' = [api |-> "ValidateAccessUri", hooked |-> FALSE, lookup |-> lookup,
                        error |-> r.error, cmdSet |-> r.cmdSet,
                        ret |-> IF r.failed THEN ERROR_INSTALL_FAILURE ELSE ERROR_SUCCESS]
            /\ UNCHANGED <<threadVars, env, modules, logVars, disk, hookVars,
                           g_hRegWSManClient, probe, hist>>

\* what the installer's dialog or command line gives the access URI properties
AccessUriValues(name) ==
    CASE name = "P.ACCESSURI_SCHEME" ->
             {<<>>, <<"h","t","t","p">>, <<"H","T","T","P","S">>, <<"f","t","p">>}
      [] name = "P.ACCESSURI_HOST" -> {<<>>, <<"h">>, <<"h","/","x">>}
      [] name = "P.ACCESSURI_PORT" ->
             {<<>>, <<"8","0">>, <<"0">>, <<"6","5","5","3","5">>,
              <<"6","5","5","3","6">>, <<"8","x">>}

\* the user edits one of the properties ValidateAccessUri reads (lines 868-894)
EditProperty ==
    \E name \in {"P.ACCESSURI_SCHEME", "P.ACCESSURI_HOST", "P.ACCESSURI_PORT"} :
    \E value \in AccessUriValues(name) :
        /\ last = Idle
        /\ property[name] # value
        /\ property' = [property EXCEPT ![name] = value]
        /\ UNCHANGED <<threadVars, env, modules, logVars, disk, hookVars,
                       g_hRegWSManClient, probe, hist, last>>

\* One %hu of sscanf: the digits at the head of s as an unsigned short, and
\* what follows them; no conversion when s does not start with a digit.
ScanUShort(s) ==
    LET n == CHOOSE k \in 0..Len(s) :
                 /\ \A i \in 1..k : IsDigit(s[i])
                 /\ k < Len(s) => ~IsDigit(s[k + 1])
    IN  [ok |-> n > 0, value |-> AtoiDigits(SubSeq(s, 1, n), 0) % 65536,
         rest |-> SubSeq(s, n + 1, Len(s))]

RECURSIVE sscanf(_, _)
\* sscanf(s, "%hu.%hu.%hu.%hu"): the fields converted, at most count of them
sscanf(s, count) ==
    LET f == ScanUShort(s)
    IN  IF ~f.ok THEN <<>>
        ELSE IF count = 1 \/ f.rest = <<>> \/ Head(f.rest) # "." THEN <<f.value>>
        ELSE <<f.value>> \o sscanf(Tail(f.rest), count - 1)

\* GetPowerShellVersion, lines 257-318.  reg is what the registry holds under
\* HKLM\Software\Microsoft\PowerShell\3: install, the Install value (NULL when
\* the key or the value cannot be read), version, the PowerShellVersion string
\* of the PowerShellEngine subkey (NULL likewise).
GetPowerShellVersion(reg) ==
    IF reg.install = NULL THEN [ok |-> FALSE]
    ELSE IF Deref(reg.install) # 1 THEN [ok |-> FALSE]
    ELSE IF reg.version = NULL THEN [ok |-> FALSE]
    ELSE LET fields == sscanf(Deref(reg.version), 4)
         IN  IF Len(fields) # 4 THEN [ok |-> FALSE]
             ELSE [ok |-> TRUE, major |-> fields[1], minor |-> fields[2]]

\* the condition of line 337
PowerShellIsRecent(major, minor) == major >= 5 /\ minor >= 1

\* CheckPowerShellVersion, lines 320-346
CheckPowerShellVersion(reg) ==
    LET v == GetPowerShellVersion(reg)
        hasPwsh == IF v.ok /\ PowerShellIsRecent(v.major, v.minor)
                   THEN <<"0">> ELSE <<"1">>
    IN  /\ last = Idle
        /\ property' = [property EXCEPT !["P.HASPWSH"] = hasPwsh]
        /\ last' = [api |-> "CheckPowerShellVersion", hooked |-> FALSE, reg |-> reg,
                    version |-> v,
                    ret |-> IF v.ok THEN ERROR_SUCCESS ELSE ERROR_INSTALL_FAILURE]
        /\ UNCHANGED <<threadVars, env, modules, logVars, disk, hookVars,
                       g_hRegWSManClient, probe, hist>>

PowerShellVersions ==
    {<<"5",".","1",".","1","9",".","1">>, <<"5",".","0",".","1","0",".","1">>,
     <<"4",".","5",".","0",".","0">>, <<"6",".","0",".","0",".","0">>,
     <<"7",".","0",".","0",".","0">>, <<"5",".","1">>, <<"v","5">>}

PowerShellRegistry ==
    [install : {NULL, Ptr(0), Ptr(1)}, version : {NULL} \cup {Ptr(v) : v \in PowerShellVersions}]

\* the terminating null character
NUL == "NUL"

\* calloc(n, sizeof(WCHAR)): n characters, all zero
CallocWide(n) == [i \in 1..n |-> NUL]

\* CopyMemory(dst, src, n * sizeof(WCHAR))
CopyMemory(dst, src, n) == [i \in 1..Len(dst) |-> IF i <= n THEN src[i] ELSE dst[i]]

\* ExecuteCommand up to CreateProcessW, lines 427-449.  lpCommand is the
\* content of the allocation.  When it holds no null character CreateProcessW
\* reads past its end: it runs the command ("ran"), the command followed by
\* what the heap holds behind it ("ran-other"), or faults ("fault").
ExecuteCommand(command, allocOk) ==
    LET lpCommandLen == Len(command)
        lpCommand == CopyMemory(CallocWide(lpCommandLen), command, lpCommandLen)
        terminated == \E i \in 1..Len(lpCommand) : lpCommand[i] = NUL
    IN  \E outcome \in IF ~allocOk THEN {"E_OUTOFMEMORY"}
                        ELSE IF terminated THEN {"ran"}
                        ELSE {"ran", "ran-other", "fault"} :
            /\ last = Idle
            /\ last' = [api |-> "ExecuteCommand", hooked |-> FALSE, command |-> command,
                        lpCommand |-> IF allocOk THEN Ptr(lpCommand) ELSE NULL,
                        outcome |-> outcome]
            /\ UNCHANGED <<threadVars, property, env, modules, logVars, disk, hookVars,
                           g_hRegWSManClient, probe, hist>>

\* the command lines the custom actions run: the PowerShell command of
\* ValidateAccessUri (line 935) among them
Commands == {<<"p">>, <<"p", " ", "-", "c">>, property["P.ACCESSURI_CMD"]} \ {<<>>}

InitInstaller ==
    /\ InitFresh
    /\ modules = [m \in Modules |-> "absent"]

NextInstaller ==
    \/ EditProperty
    \/ ValidateAccessUri
    \/ \E reg \in PowerShellRegistry : CheckPowerShellVersion(reg)
    \/ \E command \in Commands : \E allocOk \in BOOLEAN : ExecuteCommand(command, allocOk)
    \/ HostReturn

SpecInstaller == InitInstaller /\ [][NextInstaller]_vars

-----------------------------------------------------------------------------
(* Properties of Hook_WinHttpOpen, checked under SpecWinHttpOpen *)

\* the call whose result the host thread has not yet taken went through the hook of api
InHook(api) == last.api = api /\ last.hooked

\* the call came back, after exactly one call of the real function
ForwardedOnce == last.outcome = "returned" /\ Len(last.realCalls) = 1

\* the agent string of the call is exactly "Microsoft WinRM Client"
AgentIsWinRM == last.args.pszAgentW = Ptr(WinRMAgent)

\* C1: a call of Hook_WinHttpOpen whose agent string is null, or is not exactly
\* (case-sensitively) "Microsoft WinRM Client", calls the real WinHttpOpen
\* exactly once with all five arguments as the caller gave them and returns
\* what the real function returned, whatever WINRM_PROXY and
\* WINRM_PROXY_BYPASS are.
C1_OtherAgentForwardedUnchanged ==
    (InHook("WinHttpOpen") /\ ~AgentIsWinRM)
        => /\ ForwardedOnce
           /\ last.realCalls[1] = last.args
           /\ last.ret = last.realRet

\* an agent that differs from the WinRM agent only by case, with both
\* variables set and a caller that named its own proxy: forwarded unchanged
C1_Witness ==
    /\ InHook("WinHttpOpen")
    /\ last.args.pszAgentW = Ptr(ToLower(WinRMAgent))
    /\ env.WINRM_PROXY # NULL /\ env.WINRM_PROXY_BYPASS # NULL
    /\ last.args.pszProxyW # NULL
    /\ last.realCalls = <<last.args>>
    /\ last.ret = 1 /\ last.realRet = 1

\* C2: a call of Hook_WinHttpOpen whose agent string is exactly "Microsoft
\* WinRM Client", made while WINRM_PROXY is set, calls the real WinHttpOpen
\* with access type named-proxy and the wide conversion of WINRM_PROXY as the
\* proxy (also when the caller's proxy was null), with the wide conversion of
\* WINRM_PROXY_BYPASS as the bypass if that variable is set and the caller's
\* bypass otherwise, and with the caller's agent and flags.
C2_ProxyOverrideForwarded ==
    (InHook("WinHttpOpen") /\ AgentIsWinRM /\ env.WINRM_PROXY # NULL)
        => /\ ForwardedOnce
           /\ last.realCalls[1].dwAccessType = WINHTTP_ACCESS_TYPE_NAMED_PROXY
           /\ last.realCalls[1].pszProxyW =
                  Ptr(MultiByteToWideChar(Deref(env.WINRM_PROXY)))
           /\ last.realCalls[1].pszProxyBypassW =
                  IF env.WINRM_PROXY_BYPASS # NULL
                  THEN Ptr(MultiByteToWideChar(Deref(env.WINRM_PROXY_BYPASS)))
                  ELSE last.args.pszProxyBypassW
           /\ last.realCalls[1].pszAgentW = last.args.pszAgentW
           /\ last.realCalls[1].dwFlags = last.args.dwFlags

\* C3: a call of Hook_WinHttpOpen whose agent string is exactly "Microsoft
\* WinRM Client", made while WINRM_PROXY is not set, calls the real
\* WinHttpOpen with the caller's access type, proxy and bypass, whether or not
\* WINRM_PROXY_BYPASS is set.
C3_NoProxyNoOverride ==
    (InHook("WinHttpOpen") /\ AgentIsWinRM /\ env.WINRM_PROXY = NULL)
        => /\ ForwardedOnce
           /\ last.realCalls[1].dwAccessType = last.args.dwAccessType
           /\ last.realCalls[1].pszProxyW = last.args.pszProxyW
           /\ last.realCalls[1].pszProxyBypassW = last.args.pszProxyBypassW

\* the WinRM agent with only WINRM_PROXY_BYPASS set and a caller that gave its
\* own bypass list: the caller's list is forwarded
C3_Witness ==
    /\ InHook("WinHttpOpen") /\ AgentIsWinRM
    /\ env.WINRM_PROXY = NULL /\ env.WINRM_PROXY_BYPASS # NULL
    /\ last.args.pszProxyBypassW = Ptr(<<"b">>)
    /\ last.args.dwAccessType = WINHTTP_ACCESS_TYPE_DEFAULT_PROXY
    /\ ForwardedOnce
    /\ last.realCalls[1] = last.args

-----------------------------------------------------------------------------
(* Properties of the registry hooks, checked under SpecRegistry *)

\* the query in flight went through the hook, on the remembered handle, for
\* the value called name (registry value names do not distinguish case)
QueryOnRemembered(name) ==
    /\ InHook("RegQueryValueExW")
    /\ last.args.hKey = g_hRegWSManClient
    /\ last.args.lpValueNameW # NULL
    /\ StrIEq(Deref(last.args.lpValueNameW), name)

\* the caller gave a data buffer and its size
HasBuffer == last.args.lpData # NULL /\ last.args.lpcbData # NULL

\* the hook answered by itself, with lstatus, without calling the real query
Answered(lstatus) ==
    last.outcome = "returned" /\ last.ret = lstatus /\ last.realCalls = <<>>

\* the first four bytes of the caller's buffer after the call
DataWritten == SubSeq(Deref(last.outs.lpData), 1, 4)

\* the type variable, when the caller gave one, holds type after the call
TypeReported(type) == last.args.lpType # NULL => last.outs.lpType = Ptr(type)

\* the hook reported success with the flag 1 of type REG_DWORD in the buffer
FlagFabricated ==
    /\ Answered(ERROR_SUCCESS)
    /\ DataWritten = DWORD_One
    /\ TypeReported(REG_DWORD)

\* C4: a query for "TrustedHosts" on the remembered handle with a data buffer
\* and a size of exactly 4 returns success, with the 32-bit value 1 in the
\* buffer and the type REG_DWORD in the type variable when one is given, and
\* the real RegQueryValueExW is not called.
C4_TrustedHostsFabricated ==
    (QueryOnRemembered(TrustedHosts) /\ HasBuffer /\ Deref(last.args.lpcbData) = 4)
        => FlagFabricated

\* the handle was remembered from a successful open and the caller, who gave
\* a type variable, reads the flag 1
C4_Witness ==
    /\ g_hRegWSManClient # 0
    /\ QueryOnRemembered(TrustedHosts) /\ HasBuffer
    /\ last.args.lpValueNameW = Ptr(TrustedHosts)
    /\ Deref(last.args.lpcbData) = 4
    /\ last.args.lpType # NULL
    /\ last.realCalls = <<>>
    /\ last.ret = ERROR_SUCCESS /\ Deref(last.outs.lpData) = DWORD_One
    /\ last.outs.lpType = Ptr(REG_DWORD)

\* C5: the result for "TrustedHosts" is fabricated for every buffer size of 4
\* bytes or more, not only for a size of exactly 4.
C5_TrustedHostsAnyLargeBuffer ==
    (QueryOnRemembered(TrustedHosts) /\ HasBuffer /\ Deref(last.args.lpcbData) >= 4)
        => FlagFabricated

\* C6: on the remembered handle, a query for "TrustedHostsList" without a data
\* buffer (a size probe) returns ERROR_MORE_DATA with the size 4, writes no
\* data and does not call the real query; the query that follows it with a
\* buffer of at least the reported size gets L"*" and its terminator, the size
\* 4, the type REG_SZ and success, again without the real query.
C6_ProbeThenFetch ==
    /\ (QueryOnRemembered(TrustedHostsList)
            /\ last.args.lpData = NULL /\ last.args.lpcbData # NULL)
        => /\ Answered(ERROR_MORE_DATA)
           /\ last.outs.lpcbData = Ptr(4)
           /\ last.outs.lpData = NULL
    /\ (QueryOnRemembered(TrustedHostsList) /\ HasBuffer
            /\ probe.hKey = last.args.hKey
            /\ probe.lpValueNameW = last.args.lpValueNameW
            /\ Deref(last.args.lpcbData) >= probe.size)
        => /\ Answered(ERROR_SUCCESS)
           /\ DataWritten = WideStar
           /\ last.outs.lpcbData = Ptr(4)
           /\ TypeReported(REG_SZ)

\* the probe on a remembered handle was answered with 4, and the fetch with an
\* 8-byte buffer got the string in its first four bytes
C6_Witness ==
    /\ g_hRegWSManClient # 0
    /\ probe = [hKey |-> g_hRegWSManClient, lpValueNameW |-> Ptr(TrustedHostsList),
                size |-> 4]
    /\ QueryOnRemembered(TrustedHostsList) /\ HasBuffer
    /\ last.args.lpValueNameW = probe.lpValueNameW
    /\ Deref(last.args.lpcbData) = 8
    /\ last.realCalls = <<>>
    /\ last.ret = ERROR_SUCCESS
    /\ Deref(last.outs.lpData) = <<42, 0, 0, 0, 255, 255, 255, 255>>
    /\ last.outs.lpcbData = Ptr(4)

\* C7: on the remembered handle the two names treat a buffer that is too small
\* differently: a query for "TrustedHosts" with a buffer of less than 4 bytes
\* is forwarded to the real query, while a query for "TrustedHostsList" with a
\* buffer of less than 4 bytes returns ERROR_MORE_DATA and is not forwarded.
C7_SmallBufferAsymmetry ==
    /\ (QueryOnRemembered(TrustedHosts) /\ HasBuffer /\ Deref(last.args.lpcbData) < 4)
        => ForwardedOnce
    /\ (QueryOnRemembered(TrustedHostsList) /\ HasBuffer
            /\ Deref(last.args.lpcbData) < 4)
        => Answered(ERROR_MORE_DATA)

\* C8: a query on a handle other than the remembered one, for any name, or on
\* the remembered handle for a name that is neither "TrustedHosts" nor
\* "TrustedHostsList" or is null, calls the real RegQueryValueExW exactly once
\* with all six arguments as given and returns its status and outputs.
C8_OtherQueriesForwarded ==
    (InHook("RegQueryValueExW")
        /\ (\/ last.args.hKey # g_hRegWSManClient
            \/ last.args.lpValueNameW = NULL
            \/ (~StrIEq(Deref(last.args.lpValueNameW), TrustedHosts)
                /\ ~StrIEq(Deref(last.args.lpValueNameW), TrustedHostsList))))
        => /\ ForwardedOnce
           /\ last.realCalls[1] = last.args
           /\ last.ret = last.realRet
           /\ last.outs = last.realOut

\* "TrustedHosts" is queried with a 4-byte buffer on a handle that is not the
\* remembered one: the caller reads the registry's own value
C8_Witness ==
    /\ InHook("RegQueryValueExW")
    /\ g_hRegWSManClient # 0 /\ last.args.hKey # g_hRegWSManClient
    /\ last.args.lpValueNameW = Ptr(TrustedHosts)
    /\ HasBuffer /\ Deref(last.args.lpcbData) = 4
    /\ last.realCalls = <<last.args>>
    /\ last.ret = ERROR_SUCCESS /\ Deref(last.outs.lpData) = <<0, 0, 0, 0>>

\* C9: Hook_RegOpenKeyExW calls the real RegOpenKeyExW exactly once, with all
\* five arguments as given and before it touches the remembered handle, and
\* returns the real status and leaves the real output handle in place.
C9_OpenForwardedFirst ==
    InHook("RegOpenKeyExW")
        => /\ ForwardedOnce
           /\ last.realCalls[1] = last.args
           /\ last.remAtRealCall = last.remAtEntry
           /\ last.ret = last.realRet
           /\ last.outs.phkResult = last.realOut.phkResult

\* a second open of the configuration path is refused by the real registry
\* while another handle is remembered: the refusal and the handle variable
\* reach the caller as the real function left them
C9_Witness ==
    /\ InHook("RegOpenKeyExW")
    /\ last.args.hKey = HKEY_LOCAL_MACHINE
    /\ last.args.lpSubKeyW = Ptr(WSManClientPath)
    /\ last.remAtEntry # 0
    /\ last.args.phkResult # Ptr(last.remAtEntry)
    /\ last.realCalls = <<last.args>>
    /\ last.ret = ERROR_ACCESS_DENIED
    /\ last.outs.phkResult = last.args.phkResult

-----------------------------------------------------------------------------
(* Properties of the hook life cycle, checked under Spec *)

\* the n-th latest operation of the history
Latest(n) == hist[Len(hist) - n + 1]

\* the n-th latest operation was an attach that committed, made while nothing was hooked
AttachedFresh(n) ==
    Latest(n).op = "attach" /\ Latest(n).ret = NO_ERROR /\ Latest(n).fresh

\* the n-th latest operation was a detach that committed
Detached(n) == Latest(n).op = "detach" /\ Latest(n).ret = NO_ERROR

\* C10: Jetify_AttachHooks followed at once by Jetify_DetachHooks, both
\* transactions committing, leaves no entry point redirected, the WinHTTP
\* ones and the two registry ones alike: the next call of an entry point runs
\* the original implementation and no hook.
C10_AttachDetachRestores ==
    /\ (Len(hist) >= 2 /\ AttachedFresh(2) /\ Detached(1))
        => \A t \in Targets : entry[t] = "body" /\ tramp[t] = <<>>
    /\ (Len(hist) >= 3 /\ AttachedFresh(3) /\ Detached(2) /\ Latest(1).op = "call"
            /\ last # Idle)
        => /\ ~last.hooked
           /\ last.outcome = "returned"
           /\ last.realCalls = <<last.args>>

\* the registry functions were resolved and hooked by the attach, and the
\* query made after the detach reaches the real registry
C10_Witness ==
    /\ modules["KernelBase.dll"] = "exports"
    /\ Len(hist) >= 3 /\ AttachedFresh(3) /\ Detached(2) /\ Latest(1).op = "call"
    /\ last.api = "RegQueryValueExW"
    /\ ~last.hooked
    /\ last.realCalls = <<last.args>>

\* the target's address is known when Jetify_AttachHooks reaches its attach:
\* a WinHTTP function is linked statically, a registry function is exported by
\* one of the two modules
Resolves(t) == t \in WinHttpTargets \/ \E m \in Modules : modules[m] = "exports"

\* C11: Jetify_DetachHooks called while no hook is attached (before any
\* Jetify_AttachHooks, or again after a detach that committed) asks for the
\* removal of no redirect, so that its transaction is empty, and returns the
\* success status.
C11_DetachIdempotent ==
    (last.api = "Jetify_DetachHooks" /\ Latest(1).op = "detach" /\ Latest(1).fresh)
        => /\ last.requests = {}
           /\ last.ret = NO_ERROR

\* C15: after Jetify_AttachHooks has committed, a target is redirected to its
\* hook if and only if its address resolved: each WinHTTP function that has a
\* hook (Open, Connect, SetOption, OpenRequest, SendRequest, CloseHandle) and
\* each registry function that resolved is redirected, and a registry function
\* found in neither module is left alone without keeping the others from
\* being attached.
C15_AttachCoversResolved ==
    (last.api = "Jetify_AttachHooks" /\ last.ret = NO_ERROR)
        => \A t \in Targets : (entry[t] = "hook") <=> Resolves(t)

-----------------------------------------------------------------------------
(* Further properties of the registry hooks, checked under SpecRegistry *)

\* C19: whenever Hook_RegQueryValueExW goes on to the real query, also for
\* "TrustedHosts" with a size other than 4 and for "TrustedHostsList" with a
\* buffer of less than 4 bytes on the remembered handle, it has written
\* nothing to the caller's type, data and size before, so that the caller
\* gets the outputs and the status of a direct call of the real query, also
\* when that query fails.
C19_ForwardedUntouched ==
    (InHook("RegQueryValueExW") /\ ForwardedOnce)
        => /\ last.realCalls[1] = last.args
           /\ last.ret = last.direct.lstatus
           /\ last.outs = last.direct.mem

\* the call of the hooked RegOpenKeyExW that this step makes names the
\* configuration path under HKEY_LOCAL_MACHINE
OpensConfigPath ==
    /\ last = Idle
    /\ last'.api = "RegOpenKeyExW" /\ last'.hooked
    /\ last'.args.hKey = HKEY_LOCAL_MACHINE
    /\ last'.args.lpSubKeyW # NULL
    /\ StrIEq(Deref(last'.args.lpSubKeyW), WSManClientPath)

\* C20: the remembered handle is the output handle of the latest call of
\* Hook_RegOpenKeyExW whose root key was HKEY_LOCAL_MACHINE and whose sub-key
\* was the configuration path in any case: such a call replaces it, every
\* other step (another root key, another path, a null path, a query) leaves
\* it as it was, and there is no other record of earlier handles.
C20_RemembersLatestOpen ==
    [][IF OpensConfigPath
       THEN g_hRegWSManClient' = Deref(last'.outs.phkResult)
       ELSE g_hRegWSManClient' = g_hRegWSManClient]_vars

\* a second open of the path, spelt in lower case, handed out another handle
\* than the one remembered, and the new one is remembered
C20_Witness ==
    /\ InHook("RegOpenKeyExW")
    /\ last.args.hKey = HKEY_LOCAL_MACHINE
    /\ last.args.lpSubKeyW = Ptr(ToLower(WSManClientPath))
    /\ last.ret = ERROR_SUCCESS
    /\ last.remAtEntry # 0
    /\ last.outs.phkResult # Ptr(last.remAtEntry)
    /\ g_hRegWSManClient = Deref(last.outs.phkResult)

-----------------------------------------------------------------------------
(* Properties of the pass-through hooks, checked under SpecPassThrough *)

PassThroughApis == {"WinHttpConnect", "WinHttpSetOption", "WinHttpOpenRequest",
                    "WinHttpSendRequest", "WinHttpCloseHandle"}

\* C16: a call that enters Hook_WinHttpConnect, Hook_WinHttpSetOption,
\* Hook_WinHttpOpenRequest, Hook_WinHttpSendRequest or Hook_WinHttpCloseHandle
\* comes back after exactly one call of the real function, made with the
\* caller's arguments, and returns the real function's result, whatever the
\* arguments and whatever the logging configuration.
C16_PassThroughForwards ==
    (last.api \in PassThroughApis /\ last.hooked)
        => /\ ForwardedOnce
           /\ last.realCalls[1] = last.args
           /\ last.ret = last.realRet

-----------------------------------------------------------------------------
(* Properties of the logging sink, checked under SpecLogger *)

\* the first Jetify_LogOpen of the process found JETIFY_LOG_LEVEL set to text
LevelRead(text) ==
    /\ last.api = "Jetify_LogOpen" /\ last.first
    /\ last.levelVar = Ptr(text)

\* C17: the first Jetify_LogOpen turns JETIFY_LOG_LEVEL into the level: the
\* names TRACE, DEBUG, INFO, WARN, ERROR, FATAL, OFF give 0 to 6 and a number
\* from 0 to 6 gives that level; with OFF or 6 logging stays disabled; with
\* ERROR a DEBUG message is not active.
C17_LevelFromEnvironment ==
    /\ \A i \in 1..7 : LevelRead(LevelNames[i]) => g_LogLevel = i - 1
    /\ \A i \in 1..7 : LevelRead(<<Digits[i]>>) => g_LogLevel = i - 1
    /\ (LevelRead(LevelNames[7]) \/ LevelRead(<<"6">>)) => ~g_LogEnabled
    /\ LevelRead(LevelNames[5]) => ~Jetify_IsLogLevelActive(JETIFY_LOG_DEBUG)

IsPrefix(a, b) == Len(a) <= Len(b) /\ SubSeq(b, 1, Len(a)) = a

\* C18: no step of Jetify_LogOpen, Jetify_Log, Jetify_LogHexDump or
\* Jetify_LogClose removes or rewrites what a log file holds: every file
\* keeps its content as the beginning of its content after the step.
C18_AppendOnly ==
    [][\A p \in LogPaths : IsPrefix(disk[p], disk'[p])]_vars

-----------------------------------------------------------------------------
(* Properties of Jetify_Init and Jetify_Uninit, checked under SpecEntryPoints *)

\* C13: a commit that fails shows in what the entry point hands back:
\* Jetify_Init returns false when Jetify_AttachHooks returned an error, and
\* Jetify_Uninit has a result that carries the error of Jetify_DetachHooks;
\* both calls return.
C13_CommitFailureSurfaced ==
    /\ (last.api = "Jetify_Init" /\ last.attach # NO_ERROR)
           => (last.outcome = "returned" /\ last.ret = FALSE)
    /\ (last.api = "Jetify_Uninit" /\ last.detach # NO_ERROR)
           => /\ last.outcome = "returned"
              /\ "ret" \in DOMAIN last
              /\ last.ret # NO_ERROR

\* A Jetify_Init is in flight that follows a Jetify_Init whose attach
\* committed with nothing hooked before it, with nothing but calls of
\* intercepted functions between the two.
SecondInit ==
    /\ last.api = "Jetify_Init" /\ last.attach = NO_ERROR
    /\ \E n \in 2..Len(hist) :
          /\ Latest(n).op = "init" /\ Latest(n).ret = NO_ERROR /\ Latest(n).fresh
          /\ \A k \in 2..(n - 1) : Latest(k).op = "call"

\* C14: a second Jetify_Init after a successful one leaves every target with
\* at most one hook layer, the Real_ pointers on code that is not a
\* hook, every log file with the lines it had, and no FILE* left open behind.
C14_InitIdempotent ==
    SecondInit
        => /\ \A t \in Targets : Len(tramp[t]) <= 1 /\ RealCall(t) # "recurse"
           /\ \A p \in LogPaths : IsPrefix(last.diskAtEntry[p], disk[p])
           /\ ~last.leaked

-----------------------------------------------------------------------------
(* Properties of concurrent attach and detach, checked under SpecThreads *)

\* the threads between the begin and the commit of a patch transaction
InTransaction == {t \in Threads : pc[t] # "idle"}

\* C12: whatever the interleaving of two threads that call
\* Jetify_AttachHooks and Jetify_DetachHooks, at most one of them is between
\* DetourTransactionBegin and DetourTransactionCommit.
C12_OneTransactionAtATime == Cardinality(InTransaction) <= 1

-----------------------------------------------------------------------------
(* Further properties of the registry hooks, checked under SpecRegistry *)

\* C21: a call of Hook_RegOpenKeyExW whose real open fails leaves the
\* remembered handle as the call found it, for the configuration path as for
\* every other path.
C21_RememberOnlyOnSuccess ==
    (InHook("RegOpenKeyExW") /\ last.outcome = "returned" /\ last.ret # ERROR_SUCCESS)
        => g_hRegWSManClient = last.remAtEntry

-----------------------------------------------------------------------------
(* Properties of the buffers of the hooks, checked under SpecHeap *)

\* the variables that hold the UTF-8 strings made for the log lines
LogOnlySites == {"pszAgentA", "pszProxyA", "pszProxyBypassA", "pszServerNameA"}

\* positions of the heap events of one kind for one variable
Events(ev, site) == {i \in 1..Len(last.heap) : last.heap[i] = [ev |-> ev, site |-> site]}

\* C22: while logging is disabled or DEBUG is not active, a call of
\* Hook_WinHttpOpen or Hook_WinHttpConnect makes no conversion for the log
\* lines: no call of Jetify_ConvertFromUnicode for the agent, proxy, bypass
\* or server name, and no buffer for them.
C22_NoConversionWhenInactive ==
    ((InHook("WinHttpOpen") \/ InHook("WinHttpConnect"))
     /\ ~Jetify_IsLogLevelActive(JETIFY_LOG_DEBUG))
        => \A site \in LogOnlySites :
               Events("call", site) = {} /\ Events("alloc", site) = {}

\* position of the call of the real function
RealAt == CHOOSE i \in 1..Len(last.heap) : last.heap[i].ev = "real"

\* C23: in a call of Hook_WinHttpOpen that returns, every buffer obtained
\* (the two copies of the environment variables, the two converted wide
\* strings, the three UTF-8 log strings) is freed exactly once and after it was
\* obtained, nothing else is freed, and a buffer handed to the real
\* WinHttpOpen is freed after that call.
C23_BuffersFreedOnce ==
    (InHook("WinHttpOpen") /\ last.outcome = "returned")
        => \A site \in AllocSites :
               /\ Cardinality(Events("alloc", site)) <= 1
               /\ Cardinality(Events("free", site)) = Cardinality(Events("alloc", site))
               /\ \A i \in Events("alloc", site) : \A j \in Events("free", site) : i < j
               /\ Events("use", site) # {}
                      => \A j \in Events("free", site) : RealAt < j

\* a call with the agent of WinRM, both variables set and no failure: all
\* seven buffers exist, two of them handed to the real WinHttpOpen
C23_Witness ==
    /\ InHook("WinHttpOpen") /\ last.outcome = "returned"
    /\ \A site \in AllocSites : Events("alloc", site) # {}
    /\ Events("use", "_pszProxyW") # {} /\ Events("use", "_pszProxyBypassW") # {}

-----------------------------------------------------------------------------
(* Further properties of the logger, checked under SpecLogger *)

\* C24: a call of Jetify_Log made while the log file is open appends exactly
\* one line to the file, the formatted message as it is, a '%' in it
\* included, and changes nothing else of the file.
C24_OneLinePerEvent ==
    [][(last = Idle /\ last'.api = "Jetify_Log" /\ g_LogFile # NULL)
          => \E text \in LogTexts :
                 disk' = [disk EXCEPT ![Deref(g_LogFile)] =
                              @ \o <<[fmt |-> "%s", args |-> <<text>>, s |-> {1}]>>]]_vars

-----------------------------------------------------------------------------
(* Hook_RegQueryValueExW before any open of the path, checked under SpecBeforeOpen *)

\* C25: as long as no open of the configuration path went through
\* Hook_RegOpenKeyExW, every query through Hook_RegQueryValueExW, for every
\* key handle (the null handle included) and every value name, is forwarded
\* to the real function and returns what the real function returned.
C25_NoFabricationBeforeOpen ==
    InHook("RegQueryValueExW")
        => /\ Len(last.realCalls) = 1
           /\ last.ret = last.realRet
           /\ last.outs = last.realOut

-----------------------------------------------------------------------------
(* The registry hooks under several host threads, checked under SpecRegistryThreads *)

\* C26: a thread that opened the configuration path through
\* Hook_RegOpenKeyExW and queries "TrustedHosts" with a 4-byte buffer on the
\* handle that open gave it receives the fabricated value 1, whatever keys
\* the other threads opened in between.
C26_OwnHandleFabricated ==
    (/\ InHook("RegQueryValueExW")
     /\ \E t \in Threads : hConfigKey[t] # 0 /\ last.args.hKey = hConfigKey[t]
     /\ last.args.lpValueNameW # NULL
     /\ StrIEq(Deref(last.args.lpValueNameW), TrustedHosts)
     /\ HasBuffer /\ Deref(last.args.lpcbData) = 4)
        => /\ last.realCalls = <<>>
           /\ last.ret = ERROR_SUCCESS
           /\ Deref(last.outs.lpData) = DWORD_One

-----------------------------------------------------------------------------
(* Hook_WinHttpOpen when a conversion fails, checked under SpecWinHttpOpen *)

\* C27: a call of Hook_WinHttpOpen reaches the real WinHttpOpen exactly once;
\* when the hook switched the access type to named proxy the proxy it
\* forwards is not null, and a bypass list the caller passed is not replaced
\* by null, also when a conversion of WINRM_PROXY or WINRM_PROXY_BYPASS or
\* an allocation fails.
C27_NoNullProxyForwarded ==
    InHook("WinHttpOpen")
        => /\ ForwardedOnce
           /\ (/\ last.args.dwAccessType # WINHTTP_ACCESS_TYPE_NAMED_PROXY
               /\ last.realCalls[1].dwAccessType = WINHTTP_ACCESS_TYPE_NAMED_PROXY)
                  => last.realCalls[1].pszProxyW # NULL
           /\ last.args.pszProxyBypassW # NULL
                  => last.realCalls[1].pszProxyBypassW # NULL

-----------------------------------------------------------------------------
(* Properties of the installer custom actions, checked under SpecInstaller *)

\* the first check of the access URI that fails, in the order scheme, host,
\* port, as an error code; 0 when the three properties pass
FirstInvalid ==
    LET scheme == property["P.ACCESSURI_SCHEME"]
        host == property["P.ACCESSURI_HOST"]
        port == property["P.ACCESSURI_PORT"]
    IN  IF scheme = <<>> \/ ~(StrIEq(scheme, <<"h","t","t","p">>)
                              \/ StrIEq(scheme, <<"h","t","t","p","s">>))
        THEN InvalidScheme
        ELSE IF host = <<>> THEN InvalidHost
        ELSE IF port = <<>> \/ (\E i \in 1..Len(port) : ~IsDigit(port[i]))
                \/ atoi(port) < 1 \/ atoi(port) > 65535
        THEN InvalidPort
        ELSE 0

\* C28: when ValidateAccessUri returns, the validation that failed is the
\* first of scheme, host, port that does not hold; P.ERROR is non-empty
\* exactly when a validation failed, whatever the lookup of the localized
\* message did; and P.ACCESSURI_CMD was set only when every validation passed.
C28_ErrorIffInvalid ==
    last.api = "ValidateAccessUri"
        => /\ FirstInvalid # 0 => last.error = FirstInvalid
           /\ (property["P.ERROR"] # <<>>) <=> (last.error # 0)
           /\ last.cmdSet => (last.error = 0 /\ FirstInvalid = 0)

\* C29: when CheckPowerShellVersion returns and the version was read,
\* P.HASPWSH is 0 exactly when the version is 5.1 or later in version order
\* (6.0 and 7.0 are later) and 1 otherwise; when the version was not read the
\* action fails and P.HASPWSH is 1.
C29_HasPwshByVersionOrder ==
    last.api = "CheckPowerShellVersion"
        => IF last.version.ok
           THEN property["P.HASPWSH"] =
                    IF last.version.major > 5
                       \/ (last.version.major = 5 /\ last.version.minor >= 1)
                    THEN <<"0">> ELSE <<"1">>
           ELSE last.ret = ERROR_INSTALL_FAILURE /\ property["P.HASPWSH"] = <<"1">>

\* C30: the buffer ExecuteCommand hands to CreateProcessW holds the command
\* and its terminator: for a command of n characters the allocation has at
\* least n + 1 characters, the first n are the command and the next is null.
C30_CommandBufferTerminated ==
    (last.api = "ExecuteCommand" /\ last.lpCommand # NULL)
        => LET n == Len(last.command)
               buffer == Deref(last.lpCommand)
           IN  /\ Len(buffer) >= n + 1
               /\ SubSeq(buffer, 1, n) = last.command
               /\ buffer[n + 1] = NUL

====
